---- MODULE Spec2Model ----
(***************************************************************************)
(* Model of the consentcrawl audit orchestrator:                           *)
(*   - audit_url      (src/consentcrawl/audit_crawl.py)                    *)
(*   - audit_batch    (src/consentcrawl/audit_crawl.py)                    *)
(*   - audit_endpoint (src/consentcrawl/api.py)                            *)
(*   - attempt_detailed_extraction (src/consentcrawl/ui_explorer.py)       *)
(*   - NavigationStateMachine.execute_navigation_flow                      *)
(*                    (src/consentcrawl/navigation_state_machine.py)       *)
(* An audit is a coroutine; one action is one stretch of its code between  *)
(* two suspension points (awaits).  The browser, the page and the files    *)
(* read on the way are the environment: each await draws its outcome       *)
(* (returns, times out, raises) from the outcomes the call can have.       *)
(***************************************************************************)
EXTENDS Integers, Sequences, FiniteSets, TLC

\* ------------------------------------------------------------------ bounds
\* longest URL, counted in tokens
MaxUrlLen == 2
\* most categories / vendors one extraction returns
MaxItems == 1
\* number of requests the service handles concurrently
MaxAudits == 1
\* most sections merge_discoveries returns
MaxSections == 2
\* most sections the three tiers hand to merge_discoveries
MaxCandidates == 2
\* most words in the text of a button
MaxWords == 3
\* most buttons in a banner
MaxButtons == 3

\* the requests the service handles
ServiceIds == 1..MaxAudits
\* two audits that run as concurrent tasks on one browser
ConcIds == {1, 2}
\* the slots an audit can run in
AuditIds == ServiceIds \cup ConcIds
\* Spec runs one direct call of audit_url, in slot 1
DirectIds == {1}

\* ------------------------------------------------------------------- URLs
\* A URL is a sequence of tokens: "scheme" is "http://" or "https://",
\* "www" is "www.", "slash" is "/", "ch" is any run of other characters.
UrlTokens == {"scheme", "www", "slash", "ch"}

Urls == UNION {[1..n -> UrlTokens] : n \in 0..MaxUrlLen}

\* pydantic HttpUrl: a scheme followed by a host
HttpUrls == {u \in Urls : Len(u) >= 2 /\ u[1] = "scheme" /\ u[2] = "ch"}

RECURSIVE NonSlashPrefix(_)
\* the greedy group ([^/]+): the longest run of tokens before the first "/"
NonSlashPrefix(u) ==
  IF u = <<>> \/ Head(u) = "slash" THEN <<>>
  ELSE <<Head(u)>> \o NonSlashPrefix(Tail(u))

StripScheme(u) == IF u # <<>> /\ Head(u) = "scheme" THEN Tail(u) ELSE u

StripWww(u) == IF u # <<>> /\ Head(u) = "www" THEN Tail(u) ELSE u

\* re.search(r"^(?:https?://)?(?:www\.)?([^/]+)", url): the optional groups
\* are tried greedily and given back on failure; without the scheme group
\* the text "http://" itself yields the group "http:" (token "scheme_colon").
\* matched = FALSE is Python's None.
ReSearchDomain(url) ==
  LET both   == NonSlashPrefix(StripWww(StripScheme(url)))
      noWww  == NonSlashPrefix(StripScheme(url))
      noSch  == IF url # <<>> /\ Head(url) = "scheme"
                THEN <<"scheme_colon">>
                ELSE NonSlashPrefix(url)
  IN  IF both # <<>> THEN [matched |-> TRUE, group |-> both]
      ELSE IF noWww # <<>> THEN [matched |-> TRUE, group |-> noWww]
      ELSE IF noSch # <<>> THEN [matched |-> TRUE, group |-> noSch]
      ELSE [matched |-> FALSE, group |-> <<>>]

\* ---------------------------------------------------------------- banners
\* The part of a BannerInfo the orchestrator reads: detected, whether
\* cmp_type is set, and the roles present in buttons.
ButtonRoles == {"settings", "info"}

NoBannerInfo == [detected |-> FALSE, cmp_type |-> FALSE, roles |-> {}]

DetectedBanners ==
  [detected : {TRUE}, cmp_type : BOOLEAN, roles : SUBSET ButtonRoles]

\* the values detect_banner returns: a BannerInfo, or None
PyNone == [none |-> TRUE]

DetectResults == DetectedBanners \cup {NoBannerInfo, PyNone}

Statuses == {"pending", "success_basic", "success_detailed", "error"}

NavigationStates ==
  {"BANNER_DETECTED", "MODAL_OPENING", "MODAL_READY", "EXTRACTION_COMPLETE", "FAILED"}

VARIABLES
  pc,            \* per audit: the suspension point the coroutine is at
  page,          \* per audit: how page.goto ended: "none", "ok", "timeout", "error"
  caller,        \* per audit: "none", "direct" or "endpoint"
  args,          \* per audit: the arguments screenshot and config.max_ui_depth
  audit_result,  \* per audit: the AuditResult object
  banner_info,   \* per audit: the local variable banner_info
  context,       \* per audit: its browsing context: "none", "open", "closed"
  nav,           \* per audit: the NavigationStateMachine and what it returned
  detailed_data, \* per audit: what attempt_detailed_extraction returned
  cancel,        \* per audit: the wall-clock budget: "none", "swallowed", "raised"
  response,      \* per audit: HTTP status of the endpoint, 0 while open
  browser,       \* the browser handle: "none", "launched", "closed"
  batch,         \* audit_batch: "idle", "raised"
  TRACKING_DOMAINS, \* the module-level blocklist set: "loaded" or "empty"
  cmp_configs    \* per audit: its cmp_configs list: "none", "loaded", "marked"

VARIABLES
  machine,        \* the NavigationStateMachine: current_state and its report
  attempts,       \* report.attempts: the NavigationAttempt records
  nav_pc,         \* where execute_navigation_flow is
  nav_banner,     \* the banner_info the machine was built with
  strategy,       \* index of the click strategy being tried
  attempt,        \* the loop variable of _try_click_strategy
  tried,          \* names of the strategies _try_click_strategy was called for
  clicked,        \* whether button_locator.click() has returned
  shown,          \* what the page shows: "banner", or "modal" once one opened
  modal_locator,  \* the element the modal handle points at: "none", "modal", "banner"
  iframe_there,   \* whether the page still holds the iframe of the banner
  resolved,       \* where the last pass looked for the button
  outcome,        \* how the last pass of _try_click_strategy ended
  detect_attempt, \* the loop variable of _detect_modal
  readiness       \* what _validate_modal_ready checked and found

navVars == <<machine, attempts, nav_pc, nav_banner, strategy, attempt, tried,
             clicked, shown, modal_locator, iframe_there, resolved, outcome,
             detect_attempt, readiness>>

VARIABLES
  merged_sections, \* discover_all_sections: the list merge_discoveries returned
  disc_pc,         \* where discover_all_sections is
  section_idx,     \* the section the loop of step 3 is at
  discovery        \* the SectionDiscoveryResult

discVars == <<merged_sections, disc_pc, section_idx, discovery>>

VARIABLES
  all_sections,    \* merge_discoveries: tier1 + tier2 + tier3
  merged,          \* merge_discoveries: the list it returns
  merge_pc         \* where merge_discoveries is

mergeVars == <<all_sections, merged, merge_pc>>

VARIABLES
  inner_text,      \* extract_banner_buttons: the text of the button element
  aria_label,      \* extract_banner_buttons: its aria-label attribute
  role,            \* extract_banner_buttons: the role given to the button
  role_pc          \* where extract_banner_buttons is with the button

roleVars == <<inner_text, aria_label, role, role_pc>>

VARIABLES
  extraction,      \* extract_*_from_discovery: the call and what the page holds
  paths_run,       \* the extraction paths run so far, in order
  records,         \* the records the extractor returns
  ext_pc           \* where the extractor is

extVars == <<extraction, paths_run, records, ext_pc>>

VARIABLES
  buttons,         \* _attempt_modal_opening: banner_info.buttons, their roles
  settings_button, \* _attempt_modal_opening: the place of the button picked
  pick_pc          \* where the search for the settings button is

pickVars == <<buttons, settings_button, pick_pc>>

VARIABLES
  cmp_type,        \* AdaptiveWaiter.__init__: its argument
  waiter           \* the AdaptiveWaiter: its cmp_type and its timeouts

waitVars == <<cmp_type, waiter>>

VARIABLES
  act_section,     \* activate_and_validate_section: its argument
  act_button,      \* the activation control: its attributes, and the read that raises
  act_calls,       \* the calls the function has made, in order
  act_pc,          \* where the function is
  act_result       \* what it returned: "none" before it has

actVars == <<act_section, act_button, act_calls, act_pc, act_result>>

VARIABLES
  det_config,      \* detect_banner: support_nested_iframes, support_shadow_dom
  det_pc,          \* the strategy detect_banner is at
  det_detector,    \* the place of the hardcoded detector that is next
  det_tried,       \* the strategies attempted, in order
  det_yield,       \* for each of them, whether it produced a banner
  det_banner,      \* what detect_banner returned
  det_audit        \* what audit_url made of the banner

detVars == <<det_config, det_pc, det_detector, det_tried, det_yield, det_banner,
             det_audit>>

partVars == <<pickVars, waitVars, actVars, detVars>>

fnVars == <<mergeVars, roleVars, extVars, partVars>>

vars == <<pc, page, caller, args, audit_result, banner_info, context, nav,
          detailed_data, cancel, response, browser, batch,
          TRACKING_DOMAINS, cmp_configs, navVars, discVars, fnVars>>

auditVars == <<pc, page, args, audit_result, banner_info, context, nav,
               detailed_data, cmp_configs>>

Unset == [unset |-> TRUE]

NoResult == [status |-> "none", status_msg |-> "", domain_name |-> <<>>,
             banner_info |-> PyNone, categories |-> 0, vendors |-> 0,
             ui_context |-> FALSE, errors |-> <<>>, screenshot_files |-> 0]

NoNav == [current_state |-> "none", modal |-> FALSE, final_state |-> "none",
          transitions |-> <<>>, errors |-> 0]

NoArgs == [screenshot |-> FALSE, max_ui_depth |-> 0]

\* audit_crawl.py 43-49: the blocklist is read once at import; when that
\* fails the set is empty
BlocklistStates == {"loaded", "empty"}

\* no NavigationStateMachine is being followed step by step
NavIdle ==
  /\ machine = NoNav
  /\ attempts = <<>>
  /\ nav_pc = "idle"
  /\ nav_banner = Unset
  /\ strategy = 0
  /\ attempt = 0
  /\ tried = {}
  /\ clicked = FALSE
  /\ shown = "banner"
  /\ modal_locator = "none"
  /\ iframe_there = FALSE
  /\ resolved = "nowhere"
  /\ outcome = "none"
  /\ detect_attempt = 0
  /\ readiness = <<>>

\* SectionDiscoveryResult(sections=[]) (section_discovery.py line 308):
\* a best section is the index of a merged section, 0 for None
EmptyDiscovery ==
  [sections |-> <<>>, categories_section |-> 0, vendors_section |-> 0,
   cookies_section |-> 0, purposes_section |-> 0]

\* no section discovery is being followed step by step
DiscIdle ==
  /\ merged_sections = <<>>
  /\ disc_pc = "idle"
  /\ section_idx = 0
  /\ discovery = EmptyDiscovery

\* merge_discoveries is not followed
MergeIdle ==
  /\ all_sections = <<>>
  /\ merged = <<>>
  /\ merge_pc = "idle"

\* no button is being classified
RoleIdle ==
  /\ inner_text = <<>>
  /\ aria_label = <<>>
  /\ role = "none"
  /\ role_pc = "idle"

\* no extractor is being followed
ExtIdle ==
  /\ extraction = <<>>
  /\ paths_run = <<>>
  /\ records = <<>>
  /\ ext_pc = "idle"

\* no settings button is being looked for
PickIdle ==
  /\ buttons = <<>>
  /\ settings_button = 0
  /\ pick_pc = "idle"

\* no AdaptiveWaiter is being built
WaitIdle ==
  /\ cmp_type = <<>>
  /\ waiter = Unset

\* no section is being activated on its own
ActIdle ==
  /\ act_section = Unset
  /\ act_button = Unset
  /\ act_calls = <<>>
  /\ act_pc = "idle"
  /\ act_result = "none"

\* no banner detection is followed on its own
DetIdle ==
  /\ det_config = Unset
  /\ det_pc = "idle"
  /\ det_detector = 0
  /\ det_tried = <<>>
  /\ det_yield = <<>>
  /\ det_banner = Unset
  /\ det_audit = Unset

\* none of the smaller parts is being followed
PartIdle == PickIdle /\ WaitIdle /\ ActIdle /\ DetIdle

\* no function is being followed on its own
FnIdle ==
  /\ MergeIdle
  /\ RoleIdle
  /\ ExtIdle
  /\ PartIdle

\* the values of config.max_ui_depth: disabled, and the default of AuditConfig
UiDepths == {0, 3}

\* -------------------------------------------------- audit_url: pure parts
\* audit_url line 57: the domain of the URL, "unknown" for an empty URL;
\* ok = FALSE when re.search returned None and .group(1) raises
DomainName(url) ==
  IF url = <<>> THEN [ok |-> TRUE, name |-> <<"unknown">>]
  ELSE LET m == ReSearchDomain(url)
       IN  [ok |-> m.matched, name |-> m.group]

\* AuditResult(...) of lines 60-66
NewAuditResult(domain) ==
  [status |-> "pending", status_msg |-> "", domain_name |-> domain,
   banner_info |-> PyNone, categories |-> 0, vendors |-> 0,
   ui_context |-> FALSE, errors |-> <<>>, screenshot_files |-> 0]

\* the handler "except Exception" that encloses the body (lines 215-218)
OuterExcept(r) == [r EXCEPT !.status = "error", !.status_msg = "Error"]

\* the handler of a page.goto error (lines 107-110)
PageLoadError(r) == [r EXCEPT !.status = "error", !.status_msg = "Page load error"]

\* lines 133-134: a BannerInfo is attached, None is not
AttachBanner(r, b) == IF b = PyNone THEN r ELSE [r EXCEPT !.banner_info = b]

\* lines 149-151: the status after banner detection
SetBasic(r) ==
  [r EXCEPT !.status = "success_basic",
            !.status_msg = "Banner extracted successfully",
            !.ui_context = TRUE]

\* the gate without the test of max_ui_depth
ShouldAttemptDetailedAnyDepth(b, depth) ==
  "settings" \in b.roles \/ b.cmp_type

\* lines 154-158: the gate of the detailed extraction
ShouldAttemptDetailed(b, depth) ==
  ("settings" \in b.roles \/ b.cmp_type) /\ depth > 0

\* lines 167-174: the data of a detailed extraction is stored and the status
\* upgraded when it holds a category or a vendor
StoreDetailed(r, dd) ==
  LET r1 == [r EXCEPT !.categories = dd.categories, !.vendors = dd.vendors]
  IN  IF r1.categories > 0 \/ r1.vendors > 0
      THEN [r1 EXCEPT !.status = "success_detailed",
                      !.status_msg = "Full detailed extraction completed"]
      ELSE r1

\* line 187: attempt_detailed_extraction returned None
NoteSkipped(r) ==
  [r EXCEPT !.errors = Append(@, "Detailed extraction skipped: Modal navigation failed")]

\* lines 189-192: attempt_detailed_extraction (or the screenshot after it) raised
NoteFailed(r) ==
  [r EXCEPT !.errors = Append(@, "Detailed extraction failed")]

\* ------------------------------------- NavigationStateMachine: pure parts
\* NavigationStateMachine.__init__ (lines 178-183)
NewStateMachine ==
  [current_state |-> "BANNER_DETECTED", modal |-> FALSE,
   final_state |-> "BANNER_DETECTED", transitions |-> <<>>, errors |-> 0]

\* a state change that is not logged
TransitionToUnlogged(m, s) == [m EXCEPT !.current_state = s]

\* _transition_to (lines 565-575)
TransitionTo(m, s) ==
  [m EXCEPT !.current_state = s,
            !.transitions = Append(@, <<m.current_state, s>>)]

\* a report returned without report.final_state being set
FinalizeReportStale(m) == m

\* _finalize_report (lines 577-592)
FinalizeReport(m) == [m EXCEPT !.final_state = m.current_state]

\* the button choice without the test "if not settings_button"
SettingsButtonAlways(b) ==
  IF "settings" \in b.roles THEN "settings" ELSE "info"

\* _attempt_modal_opening lines 261-279: the button the flow clicks
SettingsButton(b) ==
  IF "settings" \in b.roles THEN "settings"
  ELSE IF "info" \in b.roles THEN "info"
  ELSE "none"

\* execute_navigation_flow lines 227-230, 235-238, 246-250: the flow failed
NavFailed(m) ==
  FinalizeReport([TransitionTo(m, "FAILED") EXCEPT !.errors = @ + 1, !.modal = FALSE])

\* a flow that goes on to EXTRACTION_COMPLETE once the modal is ready
NavReadyThenComplete(m) ==
  FinalizeReport(TransitionTo([TransitionTo(m, "MODAL_READY") EXCEPT !.modal = TRUE],
                              "EXTRACTION_COMPLETE"))

\* execute_navigation_flow lines 240-244: the modal is ready
NavReady(m) ==
  FinalizeReport([TransitionTo(m, "MODAL_READY") EXCEPT !.modal = TRUE])

\* ------------------------------------------------------ audit_url: steps
\* what the code after an await leads to: the new AuditResult, the next
\* suspension point, and the state machine when one was built
Cont(r, next, m, dd) == [res |-> r, pc |-> next, nav |-> m, dd |-> dd]

\* lines 197-206: the captured requests are processed (process_network_requests
\* catches its own errors) and context.cookies() is awaited
ToCookies(r, m, dd) == Cont(r, "cookies", m, dd)

\* lines 165-187: attempt_detailed_extraction returned dd
AfterDetailed(r, m, dd, shot) ==
  IF dd = PyNone THEN ToCookies(NoteSkipped(r), m, dd)
  ELSE IF shot THEN Cont(StoreDetailed(r, dd), "shot_ui", m, dd)
  ELSE ToCookies(StoreDetailed(r, dd), m, dd)

\* the exception of the detailed extraction reaching the outer handler
DetailedRaisedEscapes(r, m) ==
  Cont(OuterExcept(r), "returned", m, [raised |-> TRUE])

\* lines 189-193: attempt_detailed_extraction raised
DetailedRaised(r, m) == ToCookies(NoteFailed(r), m, [raised |-> TRUE])

\* lines 147-163 and navigation_state_machine.py 221-279: the status becomes
\* success_basic; banner_info.buttons of None raises into the outer handler;
\* behind the gate the state machine is built and enters MODAL_OPENING, and
\* without a settings or info button the flow fails before any await
AfterBanner(r, b, shot, depth) ==
  LET r1 == SetBasic(r)
      m1 == TransitionTo(NewStateMachine, "MODAL_OPENING")
  IN  IF b = PyNone THEN Cont(OuterExcept(r1), "returned", NoNav, Unset)
      ELSE IF ShouldAttemptDetailed(b, depth)
      THEN IF SettingsButton(b) = "none"
           THEN AfterDetailed(r1, NavFailed(m1), PyNone, shot)
           ELSE Cont(r1, "nav_open", m1, Unset)
      ELSE ToCookies(r1, NoNav, Unset)

\* the coroutine moves on as a continuation says
Continue(a, k) ==
  /\ audit_result' = [audit_result EXCEPT ![a] = k.res]
  /\ pc' = [pc EXCEPT ![a] = k.pc]
  /\ nav' = [nav EXCEPT ![a] = k.nav]
  /\ detailed_data' = [detailed_data EXCEPT ![a] = k.dd]

\* an exception reaches the outer handler: status error, and the result is
\* returned (lines 215-220)
Raise(a) ==
  Continue(a, Cont(OuterExcept(audit_result[a]), "returned", nav[a], detailed_data[a]))

\* lines 52-71: audit_url is called; the domain is derived from the URL
\* outside the try block, so a URL without a match raises to the caller
AuditCall(a, c, url, shot, depth) ==
  /\ pc[a] = "idle"
  /\ caller' = [caller EXCEPT ![a] = c]
  /\ args' = [args EXCEPT ![a] = [screenshot |-> shot, max_ui_depth |-> depth]]
  /\ LET d == DomainName(url)
     IN  IF d.ok
         THEN /\ audit_result' = [audit_result EXCEPT ![a] = NewAuditResult(d.name)]
              /\ pc' = [pc EXCEPT ![a] = "new_context"]
         ELSE /\ audit_result' = audit_result
              /\ pc' = [pc EXCEPT ![a] = "raised"]
  /\ UNCHANGED <<page, banner_info, context, nav, detailed_data, cancel,
                 response, browser, batch, TRACKING_DOMAINS, cmp_configs,
                 navVars, discVars, fnVars>>

\* lines 73-76: browser.new_context returns a context or raises
NewContext(a) ==
  /\ pc[a] = "new_context"
  /\ \/ /\ browser = "launched"
        /\ context' = [context EXCEPT ![a] = "open"]
        /\ pc' = [pc EXCEPT ![a] = "new_page"]
        /\ UNCHANGED <<audit_result, nav, detailed_data>>
     \/ /\ Raise(a)
        /\ UNCHANGED context
  /\ UNCHANGED <<page, caller, args, banner_info, cancel, response, browser, batch,
                 TRACKING_DOMAINS, cmp_configs, navVars, discVars, fnVars>>

\* lines 80-92: the init script, the page, the request listener and the route
NewPage(a) ==
  /\ pc[a] = "new_page"
  /\ \/ /\ pc' = [pc EXCEPT ![a] = "goto"]
        /\ UNCHANGED <<audit_result, nav, detailed_data>>
     \/ Raise(a)
  /\ UNCHANGED <<page, caller, args, banner_info, context, cancel, response,
                 browser, batch, TRACKING_DOMAINS, cmp_configs,
                 navVars, discVars, fnVars>>

\* page.goto with the timeout handled like any other error
GotoTimeoutIsError(a) ==
  /\ pc[a] = "goto"
  /\ \E o \in {"ok", "timeout", "error"} :
       /\ page' = [page EXCEPT ![a] = o]
       /\ IF o \in {"error", "timeout"}
          THEN /\ audit_result' = [audit_result EXCEPT ![a] = PageLoadError(@)]
               /\ pc' = [pc EXCEPT ![a] = "goto_close"]
          ELSE /\ audit_result' = audit_result
               /\ pc' = [pc EXCEPT ![a] = "mouse"]
  /\ UNCHANGED <<caller, args, banner_info, context, nav, detailed_data, cancel,
                 response, browser, batch, TRACKING_DOMAINS, cmp_configs,
                 navVars, discVars, fnVars>>

\* lines 96-112: page.goto returns, times out (the audit goes on), or raises
\* another error: status error, then context.close() is awaited
Goto(a) ==
  /\ pc[a] = "goto"
  /\ \E o \in {"ok", "timeout", "error"} :
       /\ page' = [page EXCEPT ![a] = o]
       /\ IF o = "error"
          THEN /\ audit_result' = [audit_result EXCEPT ![a] = PageLoadError(@)]
               /\ pc' = [pc EXCEPT ![a] = "goto_close"]
          ELSE /\ audit_result' = audit_result
               /\ pc' = [pc EXCEPT ![a] = "mouse"]
  /\ UNCHANGED <<caller, args, banner_info, context, nav, detailed_data, cancel,
                 response, browser, batch, TRACKING_DOMAINS, cmp_configs,
                 navVars, discVars, fnVars>>

\* lines 111-112: context.close() in the page-load handler, then return; when
\* close raises, the outer handler takes over
GotoClose(a) ==
  /\ pc[a] = "goto_close"
  /\ \/ /\ context' = [context EXCEPT ![a] = "closed"]
        /\ pc' = [pc EXCEPT ![a] = "returned"]
        /\ UNCHANGED <<audit_result, nav, detailed_data>>
     \/ /\ Raise(a)
        /\ UNCHANGED context
  /\ UNCHANGED <<page, caller, args, banner_info, cancel, response, browser, batch,
                 TRACKING_DOMAINS, cmp_configs, navVars, discVars, fnVars>>

\* lines 115-119: the mouse moves; "except:" swallows whatever they raise
MouseMove(a) ==
  /\ pc[a] = "mouse"
  /\ pc' = [pc EXCEPT ![a] = "wait"]
  /\ UNCHANGED <<page, caller, args, audit_result, banner_info, context, nav,
                 detailed_data, cancel, response, browser, batch,
                 TRACKING_DOMAINS, cmp_configs, navVars, discVars, fnVars>>

\* lines 122-130: the wait, then get_consent_managers reads its file, then
\* detect_banner is called
WaitForJs(a) ==
  /\ pc[a] = "wait"
  /\ \/ /\ pc' = [pc EXCEPT ![a] = "detect"]
        /\ cmp_configs' = [cmp_configs EXCEPT ![a] = "loaded"]
        /\ UNCHANGED <<audit_result, nav, detailed_data>>
     \/ /\ Raise(a)
        /\ UNCHANGED cmp_configs
  /\ UNCHANGED <<page, caller, args, banner_info, context, cancel, response,
                 browser, batch, TRACKING_DOMAINS, navVars, discVars, fnVars>>

\* ------------------------------------------------------- detect_banner
\* what the page gives the strategies of detect_banner: whether a hardcoded
\* detector finds its modal; whether the YAML strategy locates nothing,
\* an element extract_banner_info gets no banner from, or a banner; whether
\* one of the later strategies (generic, text, iframes, shadow DOM) yields
\* a banner; and the roles of the buttons found
CmpOutcomes == {"none", "unextractable", "extracted"}

\* banner_detector.py 375-381 and 922-930: a banner that was found
FoundBanner(cmp, roles) == [detected |-> TRUE, cmp_type |-> cmp, roles |-> roles]

\* banner_detector.py 160-417: the strategies in their order.  The YAML
\* strategy returns what extract_banner_info returned, None included
\* (lines 385-390); the later strategies are skipped over when they yield
\* None; line 417 is reached when nothing yielded
DetectBannerResult(hard, cmp, later, roles) ==
  IF hard THEN FoundBanner(TRUE, roles)
  ELSE IF cmp = "extracted" THEN FoundBanner(TRUE, roles)
  ELSE IF cmp = "unextractable" THEN PyNone
  ELSE IF later THEN FoundBanner(FALSE, roles)
  ELSE NoBannerInfo

\* the same store with one cmp_configs list loaded once and handed to every
\* audit: the mark shows in the list of each audit that holds it
MarkMatchedShared(cfgs, a) ==
  [b \in DOMAIN cfgs |-> IF b = a \/ cfgs[b] # "none" THEN "marked" ELSE cfgs[b]]

\* banner_detector.py 462-468: detect_cmp_banner stores the selector that
\* matched in the dict of the CMP, an element of the caller's cmp_configs
MarkMatched(cfgs, a) == [cfgs EXCEPT ![a] = "marked"]

\* audit_crawl.py 130-163: detect_banner returns a BannerInfo or None, or
\* raises (text-based detection reads the selector file); the banner is
\* attached; with screenshot the directory is made and the screenshot
\* awaited, else the code runs on to the next await
DetectBanner(a) ==
  /\ pc[a] = "detect"
  /\ \E hard \in BOOLEAN, cmp \in CmpOutcomes, later \in BOOLEAN,
        roles \in SUBSET ButtonRoles, mark \in BOOLEAN :
       /\ cmp_configs' = IF mark /\ ~hard THEN MarkMatched(cmp_configs, a)
                         ELSE cmp_configs
       /\ \/ LET b == DetectBannerResult(hard, cmp, later, roles)
                 r == AttachBanner(audit_result[a], b)
             IN  /\ banner_info' = [banner_info EXCEPT ![a] = b]
                 /\ IF args[a].screenshot
                    THEN Continue(a, Cont(r, "screenshot", nav[a], detailed_data[a]))
                    ELSE Continue(a, AfterBanner(r, b, FALSE, args[a].max_ui_depth))
          \/ /\ ~hard /\ cmp = "none"
             /\ Raise(a)
             /\ UNCHANGED banner_info
  /\ UNCHANGED <<page, caller, args, context, cancel, response, browser, batch,
                 TRACKING_DOMAINS, navVars, discVars, fnVars>>

\* lines 136-163: the banner screenshot is saved, or os.makedirs or
\* page.screenshot raised
Screenshot(a) ==
  /\ pc[a] = "screenshot"
  /\ \/ Continue(a, AfterBanner(
            [audit_result[a] EXCEPT !.screenshot_files = @ + 1],
            banner_info[a], TRUE, args[a].max_ui_depth))
     \/ Raise(a)
  /\ UNCHANGED <<page, caller, args, banner_info, context, cancel, response,
                 browser, batch, TRACKING_DOMAINS, cmp_configs,
                 navVars, discVars, fnVars>>

\* ----------------------------- attempt_detailed_extraction and navigation
\* navigation_state_machine.py 225-233, 281-357: the click strategies are
\* tried on the chosen button; they end with a modal candidate, with none,
\* or with an exception that execute_navigation_flow catches (246-250);
\* without a modal attempt_detailed_extraction returns None (ui_explorer 394-399)
NavOpen(a) ==
  /\ pc[a] = "nav_open"
  /\ \E o \in {"modal", "no_modal", "raise"} :
       IF o = "modal"
       THEN Continue(a, Cont(audit_result[a], "nav_validate", nav[a], detailed_data[a]))
       ELSE Continue(a, AfterDetailed(audit_result[a], NavFailed(nav[a]), PyNone,
                                      args[a].screenshot))
  /\ UNCHANGED <<page, caller, args, banner_info, context, cancel, response,
                 browser, batch, TRACKING_DOMAINS, cmp_configs,
                 navVars, discVars, fnVars>>

\* attempt_detailed_extraction without its test "if not modal: return None"
NavValidateKeepsGoing(a) ==
  /\ pc[a] = "nav_validate"
  /\ \E o \in {"ready", "not_ready"} :
       IF o = "ready"
       THEN Continue(a, Cont(audit_result[a], "discover", NavReady(nav[a]),
                             detailed_data[a]))
       ELSE Continue(a, Cont(audit_result[a], "discover", NavFailed(nav[a]),
                             detailed_data[a]))
  /\ UNCHANGED <<page, caller, args, banner_info, context, cancel, response,
                 browser, batch, TRACKING_DOMAINS, cmp_configs,
                 navVars, discVars, fnVars>>

\* navigation_state_machine.py 233-244, 520-563 and ui_explorer.py 392-409:
\* _validate_modal_ready answers (an exception in it counts as not ready);
\* a ready modal is handed to SectionDiscoverer, whose constructor reads the
\* selector file and may raise into audit_url's handler
NavValidate(a) ==
  /\ pc[a] = "nav_validate"
  /\ \E o \in {"ready", "not_ready", "ready_then_raise"} :
       CASE o = "ready" ->
              Continue(a, Cont(audit_result[a], "discover", NavReady(nav[a]),
                               detailed_data[a]))
         [] o = "not_ready" ->
              Continue(a, AfterDetailed(audit_result[a], NavFailed(nav[a]), PyNone,
                                        args[a].screenshot))
         [] o = "ready_then_raise" ->
              Continue(a, DetailedRaised(audit_result[a], NavReady(nav[a])))
  /\ UNCHANGED <<page, caller, args, banner_info, context, cancel, response,
                 browser, batch, TRACKING_DOMAINS, cmp_configs,
                 navVars, discVars, fnVars>>

\* ui_explorer.py 409-429 and section_discovery.py 298-410:
\* discover_all_sections catches every exception and returns its result
Discover(a) ==
  /\ pc[a] = "discover"
  /\ pc' = [pc EXCEPT ![a] = "extract"]
  /\ UNCHANGED <<page, caller, args, audit_result, banner_info, context, nav,
                 detailed_data, cancel, response, browser, batch,
                 TRACKING_DOMAINS, cmp_configs, navVars, discVars, fnVars>>

\* ui_explorer.py 423-451 and audit_crawl.py 163-187: the three extractors
\* return their records, or one raises and None is returned
Extract(a) ==
  /\ pc[a] = "extract"
  /\ \/ \E c \in 0..MaxItems, v \in 0..MaxItems :
          Continue(a, AfterDetailed(audit_result[a], nav[a],
                                    [categories |-> c, vendors |-> v],
                                    args[a].screenshot))
     \/ Continue(a, AfterDetailed(audit_result[a], nav[a], PyNone, args[a].screenshot))
  /\ UNCHANGED <<page, caller, args, banner_info, context, cancel, response,
                 browser, batch, TRACKING_DOMAINS, cmp_configs,
                 navVars, discVars, fnVars>>

\* audit_crawl.py 180-193: the screenshot after the exploration; when it
\* raises, the handler of the detailed extraction records it
ScreenshotUi(a) ==
  /\ pc[a] = "shot_ui"
  /\ \/ Continue(a, ToCookies([audit_result[a] EXCEPT !.screenshot_files = @ + 1],
                              nav[a], detailed_data[a]))
     \/ Continue(a, ToCookies(NoteFailed(audit_result[a]), nav[a], detailed_data[a]))
  /\ UNCHANGED <<page, caller, args, banner_info, context, cancel, response,
                 browser, batch, TRACKING_DOMAINS, cmp_configs,
                 navVars, discVars, fnVars>>

\* audit_crawl.py 205-213: context.cookies() returns or raises; both ways the
\* code goes on to context.close()
Cookies(a) ==
  /\ pc[a] = "cookies"
  /\ pc' = [pc EXCEPT ![a] = "close"]
  /\ UNCHANGED <<page, caller, args, audit_result, banner_info, context, nav,
                 detailed_data, cancel, response, browser, batch,
                 TRACKING_DOMAINS, cmp_configs, navVars, discVars, fnVars>>

\* audit_crawl.py 213-220: context.close() closes the context, or raises into
\* the outer handler; then the result is returned
CloseContext(a) ==
  /\ pc[a] = "close"
  /\ \/ /\ context' = [context EXCEPT ![a] = "closed"]
        /\ pc' = [pc EXCEPT ![a] = "returned"]
        /\ UNCHANGED <<audit_result, nav, detailed_data>>
     \/ /\ Raise(a)
        /\ UNCHANGED context
  /\ UNCHANGED <<page, caller, args, banner_info, cancel, response, browser, batch,
                 TRACKING_DOMAINS, cmp_configs, navVars, discVars, fnVars>>

\* one step of the coroutine of audit a
AuditStep(a) ==
  \/ NewContext(a) \/ NewPage(a) \/ Goto(a) \/ GotoClose(a) \/ MouseMove(a)
  \/ WaitForJs(a) \/ DetectBanner(a) \/ Screenshot(a) \/ NavOpen(a)
  \/ NavValidate(a) \/ Discover(a) \/ Extract(a) \/ ScreenshotUi(a)
  \/ Cookies(a) \/ CloseContext(a)

\* ------------------------------------------------------------ audit_batch
\* audit_crawl.py 243-252: the loop header evaluates utils.batch, but the
\* module imports only get_consent_managers from consentcrawl.utils (line 34):
\* the name utils is unbound and the call raises NameError before any
\* browser is launched or any URL audited
AuditBatch ==
  /\ batch = "idle"
  /\ batch' = "raised"
  /\ UNCHANGED <<pc, page, caller, args, audit_result, banner_info, context, nav,
                 detailed_data, cancel, response, browser, TRACKING_DOMAINS,
                 cmp_configs, navVars, discVars, fnVars>>

\* a direct call of audit_url with a launched browser
DirectCall(a) ==
  \E url \in Urls, shot \in BOOLEAN, depth \in UiDepths :
    AuditCall(a, "direct", url, shot, depth)

Idle(v) == [a \in AuditIds |-> v]

Init ==
  /\ pc = Idle("idle")
  /\ page = Idle("none")
  /\ caller = Idle("none")
  /\ args = Idle(NoArgs)
  /\ audit_result = Idle(NoResult)
  /\ banner_info = Idle(Unset)
  /\ context = Idle("none")
  /\ nav = Idle(NoNav)
  /\ detailed_data = Idle(Unset)
  /\ cancel = Idle("none")
  /\ response = Idle(0)
  /\ browser = "launched"
  /\ batch = "idle"
  /\ TRACKING_DOMAINS \in BlocklistStates
  /\ cmp_configs = Idle("none")
  /\ NavIdle
  /\ DiscIdle
  /\ FnIdle

Next ==
  \/ \E a \in DirectIds : DirectCall(a)
  \/ \E a \in DirectIds : AuditStep(a)
  \/ AuditBatch

Spec == Init /\ [][Next]_vars

\* ------------------------------------------------------ concurrent audits
\* the URL both concurrent audits are given
ConcUrl == <<"scheme", "ch">>

\* api.py 249-257 (and audit_crawl.py 255-261): audit_url is started as a
\* task on the shared browser while another audit may be in flight; both
\* run with the default max_ui_depth, the first with a screenshot and the
\* second without
ConcurrentCall(a) ==
  AuditCall(a, "direct", ConcUrl, a = 1, 3)

\* the event loop runs one task up to its next await, then any task
NextConcurrent ==
  \/ \E a \in ConcIds : ConcurrentCall(a)
  \/ \E a \in ConcIds : AuditStep(a)

SpecConcurrent == Init /\ [][NextConcurrent]_vars

\* ------------------------------------ NavigationStateMachine: step by step
\* the default of max_retries in _try_click_strategy
MaxClickRetries == 3

\* the length of common_patterns in _attempt_modal_opening
NumFallbackPatterns == 8

\* max_retries of _detect_modal (line 482)
MaxDetectRetries == 2

\* the least length of the trimmed text of a ready modal (line 541)
MinModalText == 20

\* CMP types of a banner: one that _guess_iframe_selector knows and one that
\* it does not know
NavCmpTypes == {"sourcepoint-cmp", "didomi"}

\* what the machine reads of banner_info: the roles among its buttons,
\* whether the button it picks has an aria_label and a text, the CMP type
\* and whether the banner is in an iframe
NavBanners ==
  [roles : SUBSET ButtonRoles, aria_label : BOOLEAN, text : BOOLEAN,
   cmp_type : NavCmpTypes, in_iframe : BOOLEAN]

\* cmp_type.replace("-cmp", "") on these CMP types
WithoutCmpSuffix(cmp) == IF cmp = "sourcepoint-cmp" THEN "sourcepoint" ELSE cmp

\* _guess_iframe_selector lines 202-209: the keys of iframe_selectors
IframeSelectorKeys ==
  {"sourcepoint-cmp", "sourcepoint", "trustarc", "onetrust", "sfbx", "sfbx-io"}

\* _guess_iframe_selector lines 200-211, "None" for None
GuessIframeSelector(b) ==
  IF b.cmp_type # "None"
     /\ (WithoutCmpSuffix(b.cmp_type) \in IframeSelectorKeys
          \/ b.cmp_type \in IframeSelectorKeys)
  THEN "selector" ELSE "None"

\* __init__ lines 186-198: self.iframe_selector
IframeSelector(b) == IF b.in_iframe THEN GuessIframeSelector(b) ELSE "None"

\* _try_click_strategy lines 376-393: where button_locator is taken from;
\* with an iframe selector the iframe is used when it is counted on the
\* page, the main page when it is not or when the count raised
Resolutions(b, there) ==
  IF IframeSelector(b) = "None" THEN {"main"}
  ELSE IF there THEN {"iframe", "main after error"}
  ELSE {"main", "main after error"}

\* the strategies 1 to 5 with the text-based ones ahead of aria_label
NamedStrategiesTextFirst(b) ==
  <<"direct_selector">>
    \o (IF b.text THEN <<"button_text", "role_button_text", "generic_text">> ELSE <<>>)
    \o (IF b.aria_label THEN <<"aria_label">> ELSE <<>>)

\* _attempt_modal_opening lines 281-322: the strategies 1 to 5 that apply to
\* the picked button
NamedStrategies(b) ==
  <<"direct_selector">>
    \o (IF b.aria_label THEN <<"aria_label">> ELSE <<>>)
    \o (IF b.text THEN <<"button_text", "role_button_text", "generic_text">> ELSE <<>>)

\* strategy i: a named one, then one per fallback pattern (lines 324-351)
StrategyName(b, i) ==
  IF i <= Len(NamedStrategies(b)) THEN NamedStrategies(b)[i] ELSE "fallback_pattern"

\* max_retries left at its default for the fallback patterns too
MaxRetriesDefault(b, i) == MaxClickRetries

\* max_retries of strategy i: the default, and 1 for a fallback pattern
MaxRetries(b, i) ==
  IF i <= Len(NamedStrategies(b)) THEN MaxClickRetries ELSE 1

\* a list of common_patterns with one pattern more
LastStrategyLonger(b) == Len(NamedStrategies(b)) + NumFallbackPatterns + 1

\* the number of strategies: the named ones and the fallback patterns
LastStrategy(b) == Len(NamedStrategies(b)) + NumFallbackPatterns

\* a report that keeps two records of each attempt
AddAttemptTwice(as, name, success) ==
  as \o <<[strategy |-> name, success |-> success],
          [strategy |-> name, success |-> success]>>

\* NavigationReport.add_attempt (lines 62-64); error_msg is None exactly for
\* a success
AddAttempt(as, name, success) ==
  Append(as, [strategy |-> name, success |-> success])

\* the variables of the audits, which the machine does not touch
auditSide == <<pc, page, caller, args, audit_result, banner_info, context, nav,
               detailed_data, cancel, response, browser, batch,
               TRACKING_DOMAINS, cmp_configs, discVars, fnVars>>

\* the variables of a pass of _try_click_strategy that only a click changes
passVars == <<clicked, shown, iframe_there, detect_attempt>>

\* execute_navigation_flow lines 221-230 and _attempt_modal_opening lines
\* 258-286: the machine enters MODAL_OPENING and picks its button; without
\* one it records an error and the flow fails; an exception that escapes
\* is caught by the flow (lines 246-250)
AttemptModalOpening ==
  /\ nav_pc = "start"
  /\ LET m1 == TransitionTo(machine, "MODAL_OPENING")
     IN  \/ /\ SettingsButton(nav_banner) = "none"
            /\ machine' = NavFailed([m1 EXCEPT !.errors = @ + 1])
            /\ nav_pc' = "done"
            /\ UNCHANGED <<strategy, attempt>>
         \/ /\ SettingsButton(nav_banner) # "none"
            /\ machine' = m1
            /\ nav_pc' = "click"
            /\ strategy' = 1
            /\ attempt' = 0
         \/ /\ machine' = NavFailed(m1)
            /\ nav_pc' = "done"
            /\ UNCHANGED <<strategy, attempt>>
  /\ UNCHANGED <<attempts, nav_banner, tried, modal_locator, resolved, outcome,
                 readiness, passVars, auditSide>>

\* _attempt_modal_opening: _try_click_strategy returned None; the next
\* strategy is tried, and after the last one the flow fails (lines 227-230)
StrategyOver ==
  IF strategy < LastStrategy(nav_banner)
  THEN /\ strategy' = strategy + 1
       /\ attempt' = 0
       /\ nav_pc' = "click"
       /\ machine' = machine
  ELSE /\ machine' = NavFailed(machine)
       /\ nav_pc' = "done"
       /\ UNCHANGED <<strategy, attempt>>

\* _try_click_strategy lines 373-424, one pass of its loop up to the click:
\* a fallback pattern that matches nothing on the page is passed over
\* (lines 340-351); else the button is looked up, in the iframe or on the
\* main page; a timeout is retried and recorded on the last pass only
\* (449-456); any other exception is recorded and ends the strategy
\* (457-461); else the click returns, and it may or may not have opened the
\* settings modal and removed the iframe of the banner
TryClick ==
  /\ nav_pc = "click"
  /\ LET name == StrategyName(nav_banner, strategy)
         last == attempt = MaxRetries(nav_banner, strategy) - 1
     IN  \/ /\ name = "fallback_pattern"
            /\ outcome' = "absent"
            /\ StrategyOver
            /\ UNCHANGED <<attempts, tried, resolved, passVars>>
         \/ /\ tried' = tried \cup {name}
            /\ resolved' \in Resolutions(nav_banner, iframe_there)
            /\ \/ /\ ~last
                  /\ outcome' = "timeout"
                  /\ attempt' = attempt + 1
                  /\ UNCHANGED <<attempts, machine, nav_pc, strategy, passVars>>
               \/ /\ last
                  /\ outcome' = "timeout"
                  /\ attempts' = AddAttempt(attempts, name, FALSE)
                  /\ StrategyOver
                  /\ UNCHANGED passVars
               \/ /\ outcome' = "error"
                  /\ attempts' = AddAttempt(attempts, name, FALSE)
                  /\ StrategyOver
                  /\ UNCHANGED passVars
               \/ /\ outcome' = "clicked"
                  /\ clicked' = TRUE
                  /\ shown' \in {shown, "modal"}
                  /\ iframe_there' \in {iframe_there, FALSE}
                  /\ detect_attempt' = 0
                  /\ nav_pc' = "detect"
                  /\ UNCHANGED <<attempts, machine, strategy, attempt>>
  /\ UNCHANGED <<nav_banner, modal_locator, readiness, auditSide>>

\* what detect_modal_with_retry can return for what the page shows: the
\* detectors of a CMP match its notice as well as its settings modal
\* (cmp_detectors.py 200-213: "#didomi-notice"), so the initial banner can
\* come back
DetectModalResults(page_shows) ==
  IF page_shows = "modal" THEN {"modal", "none"} ELSE {"banner", "none"}

\* _try_click_strategy lines 426-447 and one pass of the loop of
\* _detect_modal (lines 482-515): the wait for the modal may raise
\* (recorded, the strategy ends); a detected modal is recorded as a success
\* and returned; a pass that finds nothing or raises is followed by the
\* next one, and after the last one _detect_modal returns None: the click
\* loop goes on to its next pass, and after its last pass the strategy
\* returns None
DetectModal ==
  /\ nav_pc = "detect"
  /\ LET name == StrategyName(nav_banner, strategy)
         last == attempt = MaxRetries(nav_banner, strategy) - 1
     IN  \/ /\ detect_attempt = 0
            /\ outcome' = "error"
            /\ attempts' = AddAttempt(attempts, name, FALSE)
            /\ StrategyOver
            /\ UNCHANGED <<modal_locator, detect_attempt>>
         \/ \E found \in DetectModalResults(shown) \cup {"raised"} :
              IF found \in {"modal", "banner"}
              THEN /\ outcome' = "modal"
                   /\ attempts' = AddAttempt(attempts, name, TRUE)
                   /\ modal_locator' = found
                   /\ nav_pc' = "validate"
                   /\ UNCHANGED <<machine, strategy, attempt, detect_attempt>>
              ELSE /\ IF detect_attempt < MaxDetectRetries - 1
                      THEN /\ detect_attempt' = detect_attempt + 1
                           /\ UNCHANGED <<outcome, machine, nav_pc, strategy,
                                          attempt>>
                      ELSE /\ outcome' = "no modal"
                           /\ UNCHANGED detect_attempt
                           /\ IF last
                              THEN StrategyOver
                              ELSE /\ attempt' = attempt + 1
                                   /\ nav_pc' = "click"
                                   /\ UNCHANGED <<machine, strategy>>
                   /\ UNCHANGED <<attempts, modal_locator>>
  /\ UNCHANGED <<nav_banner, tried, clicked, shown, iframe_there, resolved,
                 readiness, auditSide>>

\* the calls of _validate_modal_ready in their order (lines 534, 541, 549
\* and 552)
ReadinessCalls ==
  <<"is_visible", "inner_text", "wait_for_animation_complete", "is_visible again">>

\* the text of a modal candidate: its length, and the blanks around it
ModalTexts == [length : {MinModalText, MinModalText + 1}, blanks : {0, 2}]

\* a content check that any text passes
HasContentAlways(text) == TRUE

\* line 541: len(text_content.strip()) < 20 fails the check
HasContent(text) == text.length - text.blanks >= MinModalText

\* the k-th call was made, with its result and, for inner_text, the length
\* of the trimmed text
Called(k, result, trimmed) ==
  [call |-> ReadinessCalls[k], result |-> result, trimmed |-> trimmed]

\* _validate_modal_ready lines 532-563: what the k-th call can come to;
\* each call can raise, which the function answers with False
CallOutcomes(k) ==
  {Called(k, "raised", 0)} \cup
  CASE k = 1 -> {Called(k, "passed", 0), Called(k, "failed", 0)}
    [] k = 2 -> {Called(k, IF HasContent(text) THEN "passed" ELSE "failed",
                        text.length - text.blanks) : text \in ModalTexts}
    [] k = 3 -> {Called(k, "passed", 0)}
    [] k = 4 -> {Called(k, "passed", 0), Called(k, "failed", 0)}

\* execute_navigation_flow lines 232-244 and _validate_modal_ready, one of
\* its calls: after a call that passes the next one is made; when the last
\* one has passed the machine becomes MODAL_READY and the modal is
\* returned; after a call that fails or raises the flow fails and returns
\* None
ValidateModalReady ==
  /\ nav_pc = "validate"
  /\ \E called \in CallOutcomes(Len(readiness) + 1) :
       /\ readiness' = Append(readiness, called)
       /\ IF called.result # "passed"
          THEN /\ machine' = NavFailed(machine)
               /\ modal_locator' = "none"
               /\ nav_pc' = "done"
          ELSE IF Len(readiness') = Len(ReadinessCalls)
          THEN /\ machine' = NavReady(machine)
               /\ nav_pc' = "done"
               /\ UNCHANGED modal_locator
          ELSE UNCHANGED <<machine, modal_locator, nav_pc>>
  /\ UNCHANGED <<attempts, nav_banner, strategy, attempt, tried, resolved,
                 outcome, passVars, auditSide>>

\* no audit is running: the state the parts below are followed in
AuditIdle ==
  /\ pc = Idle("idle")
  /\ page = Idle("none")
  /\ caller = Idle("none")
  /\ args = Idle(NoArgs)
  /\ audit_result = Idle(NoResult)
  /\ banner_info = Idle(Unset)
  /\ context = Idle("none")
  /\ nav = Idle(NoNav)
  /\ detailed_data = Idle(Unset)
  /\ cancel = Idle("none")
  /\ response = Idle(0)
  /\ browser = "launched"
  /\ batch = "idle"
  /\ TRACKING_DOMAINS = "loaded"
  /\ cmp_configs = Idle("none")

\* the banners in the main page, where the flow does not read the CMP type,
\* and those in an iframe
PageBanners == {b \in NavBanners : ~b.in_iframe /\ b.cmp_type = "didomi"}

IframeBanners == {b \in NavBanners : b.in_iframe}

\* NavigationStateMachine(page, banner_info, config) was built (lines
\* 171-198) for one of the banners; no audit is followed
MachineBuilt(banners) ==
  /\ AuditIdle
  /\ machine = NewStateMachine
  /\ attempts = <<>>
  /\ nav_pc = "start"
  /\ nav_banner \in banners
  /\ strategy = 0
  /\ attempt = 0
  /\ tried = {}
  /\ clicked = FALSE
  /\ shown = "banner"
  /\ modal_locator = "none"
  /\ iframe_there = nav_banner.in_iframe
  /\ resolved = "nowhere"
  /\ outcome = "none"
  /\ detect_attempt = 0
  /\ readiness = <<>>
  /\ DiscIdle
  /\ FnIdle

InitNav == MachineBuilt(PageBanners)

InitNavIframe == MachineBuilt(IframeBanners)

NextNav == AttemptModalOpening \/ TryClick \/ DetectModal \/ ValidateModalReady

SpecNav == InitNav /\ [][NextNav]_vars

\* the flow is a coroutine that the event loop keeps running
SpecNavFair == SpecNav /\ WF_vars(NextNav)

\* the flow for a banner in an iframe
SpecNavIframe == InitNavIframe /\ [][NextNav]_vars

\* ------------------------------------ SectionDiscoverer: steps 3 and 4
\* the content types that have a best section in SectionDiscoveryResult
ContentTypes == {"categories", "vendors", "cookies", "purposes"}

\* the confidence values the tiers assign (0.75 to 1.0), in hundredths
Confidences == {75, 100}

\* DiscoveredSection as merge_discoveries returns it: not validated yet
\* (audit_schemas.py 180-192); has_locator says whether locator is set,
\* rechecked whether the lazy-load check validated it again, validation
\* how its last validation pass ended
NewSections ==
  [content_type : ContentTypes, confidence : Confidences, has_locator : BOOLEAN,
   item_count_after_activation : {0}, contains_items : {FALSE}, rechecked : {FALSE},
   validation : {"none"}]

\* merge_discoveries lines 923-972: the output runs through the content
\* types one after the other, so the sections of a type are neighbours
GroupedByType(ms) ==
  \A i, j, k \in DOMAIN ms :
    (i < j /\ j < k /\ ms[i].content_type = ms[k].content_type)
      => ms[j].content_type = ms[i].content_type

MergedLists ==
  {ms \in UNION {[1..n -> NewSections] : n \in 0..MaxSections} : GroupedByType(ms)}

\* a validation that keeps contains_items once it was set
ValidatedSticky(sec, n) ==
  [sec EXCEPT !.item_count_after_activation = n, !.contains_items = @ \/ n > 0,
              !.validation = "counted"]

\* validate_section_has_content lines 1129-1165: n indicator elements were
\* counted
Validated(sec, n) ==
  [sec EXCEPT !.item_count_after_activation = n, !.contains_items = n > 0,
              !.validation = "counted"]

\* an except branch that leaves the two fields as they were
ValidationRaisedSilently(sec) == [sec EXCEPT !.validation = "raised"]

\* validate_section_has_content lines 1167-1171: the search raised
ValidationRaised(sec) ==
  [sec EXCEPT !.item_count_after_activation = 0, !.contains_items = FALSE,
              !.validation = "raised"]

\* validate_section_has_content: the section after any one pass
ValidationOutcomes(sec) ==
  {Validated(sec, n) : n \in 0..MaxItems} \cup {ValidationRaised(sec)}

\* discover_all_sections lines 358-360: the lazy-load check is made
LazyChecked(sec) ==
  sec.contains_items /\ sec.content_type \in {"vendors", "cookies"}

\* the indices of the sections of a type that contain items
WithItems(ms, type) ==
  {i \in DOMAIN ms : ms[i].content_type = type /\ ms[i].contains_items}

\* lines 378-387: the first section of the type that contains items
FirstWithItems(ms, type) ==
  IF WithItems(ms, type) = {} THEN 0
  ELSE CHOOSE i \in WithItems(ms, type) : \A j \in WithItems(ms, type) : i <= j

RECURSIVE KeptSections(_, _)
\* line 389: the indices, in order, of the sections from i on that contain items
KeptSections(ms, i) ==
  IF i > Len(ms) THEN <<>>
  ELSE (IF ms[i].contains_items THEN <<i>> ELSE <<>>) \o KeptSections(ms, i + 1)

\* lines 377-389: the result is filled from the merged sections
OrganizeByContentType(ms) ==
  [sections |-> KeptSections(ms, 1),
   categories_section |-> FirstWithItems(ms, "categories"),
   vendors_section |-> FirstWithItems(ms, "vendors"),
   cookies_section |-> FirstWithItems(ms, "cookies"),
   purposes_section |-> FirstWithItems(ms, "purposes")]

\* the variables outside section discovery
discOutside == <<pc, page, caller, args, audit_result, banner_info, context, nav,
                 detailed_data, cancel, response, browser, batch,
                 TRACKING_DOMAINS, cmp_configs, navVars, fnVars>>

\* the loop of step 3 moves on to the next section, or step 4 begins
NextSection ==
  IF section_idx < Len(merged_sections)
  THEN /\ section_idx' = section_idx + 1
       /\ disc_pc' = "activate"
  ELSE /\ section_idx' = section_idx
       /\ disc_pc' = "organize"

\* lines 345-360, 1010-1077 and 1109-1171: the section is activated if
\* need be and validated; whichever way, validate_section_has_content sets
\* its count; a vendors or cookies section with items goes on to the
\* lazy-load check
ActivateAndValidate ==
  /\ disc_pc = "activate"
  /\ \E sec \in ValidationOutcomes(merged_sections[section_idx]) :
       /\ merged_sections' = [merged_sections EXCEPT ![section_idx] = sec]
       /\ IF LazyChecked(sec)
          THEN disc_pc' = "lazy" /\ section_idx' = section_idx
          ELSE NextSection
  /\ UNCHANGED <<discovery, discOutside>>

\* handle_section_lazy_loading lines 1173-1216: without a locator, or when
\* the scroll raises, nothing changes; else the section is validated again
HandleSectionLazyLoading ==
  /\ disc_pc = "lazy"
  /\ \/ UNCHANGED merged_sections
     \/ /\ merged_sections[section_idx].has_locator
        /\ \E sec \in ValidationOutcomes(merged_sections[section_idx]) :
             merged_sections' =
               [merged_sections EXCEPT ![section_idx] =
                  [sec EXCEPT !.rechecked = TRUE]]
  /\ NextSection
  /\ UNCHANGED <<discovery, discOutside>>

\* lines 377-410: step 4, and the result is returned
Organize ==
  /\ disc_pc = "organize"
  /\ discovery' = OrganizeByContentType(merged_sections)
  /\ disc_pc' = "done"
  /\ UNCHANGED <<merged_sections, section_idx, discOutside>>

\* discover_all_sections after step 2 (line 340): merge_discoveries has
\* returned, step 3 is about to start; no audit is followed
InitDiscovery ==
  /\ pc = Idle("idle")
  /\ page = Idle("none")
  /\ caller = Idle("none")
  /\ args = Idle(NoArgs)
  /\ audit_result = Idle(NoResult)
  /\ banner_info = Idle(Unset)
  /\ context = Idle("none")
  /\ nav = Idle(NoNav)
  /\ detailed_data = Idle(Unset)
  /\ cancel = Idle("none")
  /\ response = Idle(0)
  /\ browser = "launched"
  /\ batch = "idle"
  /\ TRACKING_DOMAINS = "loaded"
  /\ cmp_configs = Idle("none")
  /\ NavIdle
  /\ FnIdle
  /\ merged_sections \in MergedLists
  /\ disc_pc = IF merged_sections = <<>> THEN "organize" ELSE "activate"
  /\ section_idx = IF merged_sections = <<>> THEN 0 ELSE 1
  /\ discovery = EmptyDiscovery

NextDiscovery == ActivateAndValidate \/ HandleSectionLazyLoading \/ Organize

SpecDiscovery == InitDiscovery /\ [][NextDiscovery]_vars

\* ------------------------------------- SectionDiscoverer.merge_discoveries
\* the variables outside the functions followed on their own
fnOutside == <<pc, page, caller, args, audit_result, banner_info, context, nav,
               detailed_data, cancel, response, browser, batch,
               TRACKING_DOMAINS, cmp_configs, navVars, discVars, partVars>>

\* the discovery methods of the three tiers, in the order of all_sections
TierMethods == <<"aria_semantic", "visual_pattern", "yaml_fallback">>

\* line 956: method_priority
MethodPriority(method) ==
  CASE method = "aria_semantic" -> 3
    [] method = "visual_pattern" -> 2
    [] method = "yaml_fallback" -> 1

\* the tier a method belongs to
TierOf(method) == 4 - MethodPriority(method)

\* the content types of the candidates
MergeTypes == {"categories", "vendors"}

\* selectors: None, or one of two
Selectors == {"None", "#a", "#b"}

\* texts of metadata["button_text"]: missing, or one text in two spellings
ButtonTexts == {"", "vendors", " Vendors"}

\* str.lower().strip() on these texts
LowerStrip(text) == IF text = " Vendors" THEN "vendors" ELSE text

\* the fields of a DiscoveredSection that merge_discoveries reads or
\* writes; merged_from is metadata["merged_from"], not there yet
SectionRecords ==
  [content_type : MergeTypes, activation_locator : Selectors,
   locator : {"None", "#a"}, button_text : ButtonTexts,
   discovery_method : {TierMethods[t] : t \in 1..3},
   confidence : Confidences, merged_from : {<<>>}]

\* what the tiers fill in: tier 2 (lines 624-756) builds buttons without a
\* content locator and lists without button or text, tier 3 (lines 812-892)
\* never sets button_text
TierShape(sec) ==
  CASE sec.discovery_method = "aria_semantic" -> TRUE
    [] sec.discovery_method = "visual_pattern" ->
         \/ sec.locator = "None"
         \/ sec.activation_locator = "None" /\ sec.button_text = ""
    [] sec.discovery_method = "yaml_fallback" -> sec.button_text = ""

\* a DiscoveredSection as a tier returns it
Candidates == {sec \in SectionRecords : TierShape(sec)}

\* line 923: tier1 + tier2 + tier3, so the methods come in tier order
InTierOrder(secs) ==
  \A i, j \in DOMAIN secs :
    i < j => TierOf(secs[i].discovery_method) <= TierOf(secs[j].discovery_method)

\* an overlap test that does not look at activation_locator
SectionsOverlapByContent(s1, s2) ==
  \/ s1.locator # "None" /\ s1.locator = s2.locator
  \/ /\ LowerStrip(s1.button_text) # ""
     /\ LowerStrip(s1.button_text) = LowerStrip(s2.button_text)

\* _sections_overlap lines 976-1008
SectionsOverlap(s1, s2) ==
  \/ s1.activation_locator # "None" /\ s1.activation_locator = s2.activation_locator
  \/ s1.locator # "None" /\ s1.locator = s2.locator
  \/ /\ LowerStrip(s1.button_text) # ""
     /\ LowerStrip(s1.button_text) = LowerStrip(s2.button_text)

\* the smallest member of a non-empty set of numbers
Least(S) == CHOOSE i \in S : \A j \in S : i <= j

\* lines 941-951: the section joins the first group whose first member it
\* overlaps, else it starts a group
PlaceInGroup(groups, sec) ==
  LET hits == {g \in DOMAIN groups : SectionsOverlap(sec, groups[g][1])}
  IN  IF hits = {} THEN Append(groups, <<sec>>)
      ELSE [groups EXCEPT ![Least(hits)] = Append(@, sec)]

RECURSIVE GroupOverlapping(_, _, _)
\* lines 939-951: the groups of the sections from i on
GroupOverlapping(sections, i, groups) ==
  IF i > Len(sections) THEN groups
  ELSE GroupOverlapping(sections, i + 1, PlaceInGroup(groups, sections[i]))

\* line 965: the key of max, (confidence, method priority), compared as tuples
KeyLess(s1, s2) ==
  \/ s1.confidence < s2.confidence
  \/ /\ s1.confidence = s2.confidence
     /\ MethodPriority(s1.discovery_method) < MethodPriority(s2.discovery_method)

\* lines 963-966: max returns the first member no other member exceeds
BestPlace(group) ==
  Least({i \in DOMAIN group :
           \A j \in DOMAIN group : ~KeyLess(group[i], group[j])})

\* lines 963-966: best
Best(group) == group[BestPlace(group)]

\* lines 961-972: the member kept from a group; best is a member of the
\* group and its discovery_method is overwritten (line 970) before the
\* methods of the group are read (line 971)
KeptFrom(group) ==
  IF Len(group) > 1
  THEN [Best(group) EXCEPT
          !.discovery_method = "hybrid",
          !.merged_from =
             [i \in DOMAIN group |->
                IF i = BestPlace(group) THEN "hybrid"
                ELSE group[i].discovery_method]]
  ELSE Best(group)

RECURSIVE KeepBest(_, _)
\* lines 961-972: the members kept from the groups from g on
KeepBest(groups, g) ==
  IF g > Len(groups) THEN <<>>
  ELSE <<KeptFrom(groups[g])>> \o KeepBest(groups, g + 1)

\* lines 926-931: by_content[content_type]
OfType(secs, type) == SelectSeq(secs, LAMBDA sec : sec.content_type = type)

RECURSIVE TypesInOrder(_, _, _)
\* lines 926-931: the keys of by_content in the order they were inserted
TypesInOrder(secs, i, seen) ==
  IF i > Len(secs) THEN seen
  ELSE TypesInOrder(secs, i + 1,
         IF \E k \in DOMAIN seen : seen[k] = secs[i].content_type
         THEN seen ELSE Append(seen, secs[i].content_type))

\* lines 935-972: what one content type adds to merged
MergedOfType(sections) ==
  IF Len(sections) = 1 THEN <<sections[1]>>
  ELSE KeepBest(GroupOverlapping(sections, 1, <<>>), 1)

RECURSIVE MergeTypesFrom(_, _, _)
\* lines 933-972: merged, from the k-th content type on
MergeTypesFrom(secs, types, k) ==
  IF k > Len(types) THEN <<>>
  ELSE MergedOfType(OfType(secs, types[k])) \o MergeTypesFrom(secs, types, k + 1)

\* merge_discoveries lines 904-974
MergeDiscoveriesOf(secs) ==
  MergeTypesFrom(secs, TypesInOrder(secs, 1, <<>>), 1)

\* merge_discoveries is called and returns
MergeDiscoveries ==
  /\ merge_pc = "called"
  /\ merged' = MergeDiscoveriesOf(all_sections)
  /\ merge_pc' = "returned"
  /\ UNCHANGED <<all_sections, roleVars, extVars, fnOutside>>

\* discover_all_sections line 339: the tiers have returned their sections
InitMerge ==
  /\ AuditIdle
  /\ PartIdle
  /\ NavIdle
  /\ DiscIdle
  /\ RoleIdle
  /\ ExtIdle
  /\ \E n \in 0..MaxCandidates : all_sections \in [1..n -> Candidates]
  /\ InTierOrder(all_sections)
  /\ merged = <<>>
  /\ merge_pc = "called"

NextMerge == MergeDiscoveries

SpecMerge == InitMerge /\ [][NextMerge]_vars

\* candidates of one content type
VendorCandidates == {sec \in Candidates : sec.content_type = "vendors"}

\* discover_all_sections line 339: the tiers have returned one candidate
\* more than in InitMerge, all of one content type
InitMergeCluster ==
  /\ AuditIdle
  /\ PartIdle
  /\ NavIdle
  /\ DiscIdle
  /\ RoleIdle
  /\ ExtIdle
  /\ all_sections \in [1..MaxCandidates + 1 -> VendorCandidates]
  /\ InTierOrder(all_sections)
  /\ merged = <<>>
  /\ merge_pc = "called"

SpecMergeCluster == InitMergeCluster /\ [][NextMerge]_vars

\* ------------------------------ banner_detector.py: the role of a button
\* strings are sequences of characters
\* classify_button_role lines 1088-1092: accept_patterns
AcceptPatterns ==
  {<<"a", "c", "c", "e", "p", "t", " ", "a", "l", "l">>,
   <<"a", "c", "c", "e", "p", "t">>, <<"a", "g", "r", "e", "e">>,
   <<"a", "l", "l", "o", "w", " ", "a", "l", "l">>,
   <<"a", "l", "l", "o", "w">>,
   <<"a", "c", "c", "e", "p", "t", "e", "r", " ", "t", "o", "u", "t">>,
   <<"a", "c", "c", "e", "p", "t", "e", "r">>,
   <<"j", "'", "a", "c", "c", "e", "p", "t", "e">>,
   <<"t", "o", "u", "t", " ", "a", "c", "c", "e", "p", "t", "e", "r">>,
   <<"a", "k", "z", "e", "p", "t", "i", "e", "r", "e", "n">>,
   <<"a", "l", "l", "e", " ", "a", "k", "z", "e", "p", "t", "i", "e", "r", "e", "n">>,
   <<"a", "c", "e", "p", "t", "a", "r">>}

\* line 1095: the words that keep a button from being accept_all
AcceptExclusions ==
  {<<"n", "e", "c", "e", "s", "s", "a", "r", "y">>,
   <<"e", "s", "s", "e", "n", "t", "i", "a", "l">>}

\* lines 1099-1103: reject_patterns
RejectPatterns ==
  {<<"r", "e", "j", "e", "c", "t", " ", "a", "l", "l">>,
   <<"r", "e", "j", "e", "c", "t">>, <<"r", "e", "f", "u", "s", "e">>,
   <<"d", "e", "n", "y">>,
   <<"r", "e", "f", "u", "s", "e", "r", " ", "t", "o", "u", "t">>,
   <<"r", "e", "f", "u", "s", "e", "r">>,
   <<"t", "o", "u", "t", " ", "r", "e", "f", "u", "s", "e", "r">>,
   <<"a", "b", "l", "e", "h", "n", "e", "n">>,
   <<"a", "l", "l", "e", "s", " ", "a", "b", "l", "e", "h", "n", "e", "n">>,
   <<"r", "e", "c", "h", "a", "z", "a", "r">>}

\* lines 1108-1114: settings_patterns
SettingsPatterns ==
  {<<"s", "e", "t", "t", "i", "n", "g">>, <<"m", "a", "n", "a", "g", "e">>,
   <<"c", "u", "s", "t", "o", "m", "i", "z", "e">>,
   <<"c", "o", "n", "f", "i", "g", "u", "r", "e">>,
   <<"p", "r", "e", "f", "e", "r", "e", "n", "c", "e">>,
   <<"c", "h", "o", "i", "c", "e">>, <<"c", "h", "o", "o", "s", "e">>,
   <<"o", "p", "t", "i", "o", "n">>,
   <<"p", "a", "r", "a", "m", "é", "t", "r", "e", "r">>,
   <<"g", "é", "r", "e", "r">>,
   <<"p", "e", "r", "s", "o", "n", "n", "a", "l", "i", "s", "e", "r">>,
   <<"c", "o", "n", "f", "i", "g", "u", "r", "e", "r">>,
   <<"p", "r", "é", "f", "é", "r", "e", "n", "c", "e">>,
   <<"e", "i", "n", "s", "t", "e", "l", "l", "u", "n", "g">>,
   <<"v", "e", "r", "w", "a", "l", "t", "e", "n">>,
   <<"a", "n", "p", "a", "s", "s", "e", "n">>,
   <<"c", "o", "n", "f", "i", "g", "u", "r", "a", "r">>,
   <<"g", "e", "s", "t", "i", "o", "n", "a", "r">>,
   <<"s", "e", "t", " ", "u", "p">>,
   <<"p", "a", "r", "t", "n", "e", "r", "s">>,
   <<"p", "a", "r", "t", "e", "n", "a", "i", "r", "e", "s">>}

\* lines 1119-1124: info_patterns
InfoPatterns ==
  {<<"m", "o", "r", "e", " ", "i", "n", "f", "o">>,
   <<"l", "e", "a", "r", "n", " ", "m", "o", "r", "e">>,
   <<"p", "r", "i", "v", "a", "c", "y", " ", "p", "o", "l", "i", "c", "y">>,
   <<"c", "o", "o", "k", "i", "e", " ", "p", "o", "l", "i", "c", "y">>,
   <<"d", "e", "t", "a", "i", "l", "s">>,
   <<"p", "l", "u", "s", " ", "d", "'", "i", "n", "f", "o">>,
   <<"e", "n", " ", "s", "a", "v", "o", "i", "r", " ", "p", "l", "u", "s">>,
   <<"p", "o", "l", "i", "t", "i", "q", "u", "e">>,
   <<"m", "e", "h", "r", " ", "e", "r", "f", "a", "h", "r", "e", "n">>,
   <<"d", "a", "t", "e", "n", "s", "c", "h", "u", "t", "z">>,
   <<"m", "á", "s", " ", "i", "n", "f", "o", "r", "m", "a", "c", "i", "ó", "n">>,
   <<"p", "o", "l", "í", "t", "i", "c", "a">>}

\* the words the button texts are made of
Vocabulary ==
  {<<"A", "c", "c", "e", "p", "t", "e", "r">>,
   <<"a", "c", "c", "e", "p", "t", "e", "r">>, <<"t", "o", "u", "t">>,
   <<"C", "o", "n", "t", "i", "n", "u", "e", "r">>, <<"s", "a", "n", "s">>,
   <<"G", "é", "r", "e", "r">>, <<"m", "e", "s">>, <<"c", "h", "o", "i", "x">>,
   <<"F", "e", "r", "m", "e", "r">>, <<"R", "e", "f", "u", "s", "e", "r">>,
   <<"n", "e", "c", "e", "s", "s", "a", "r", "y">>}

\* the aria-label attributes: missing, or one label
AriaLabels ==
  {<<>>, <<"R", "e", "f", "u", "s", "e", "r", " ", "t", "o", "u", "t">>}

\* the capital letters and, at the same places, their small letters
Capitals ==
  <<"A", "B", "C", "D", "E", "F", "G", "H", "I", "J", "K", "L", "M",
    "N", "O", "P", "Q", "R", "S", "T", "U", "V", "W", "X", "Y", "Z", "É">>

Smalls ==
  <<"a", "b", "c", "d", "e", "f", "g", "h", "i", "j", "k", "l", "m",
    "n", "o", "p", "q", "r", "s", "t", "u", "v", "w", "x", "y", "z", "é">>

\* str.lower() on one character
LowerChar(ch) ==
  IF \E i \in DOMAIN Capitals : Capitals[i] = ch
  THEN Smalls[CHOOSE i \in DOMAIN Capitals : Capitals[i] = ch]
  ELSE ch

\* str.lower()
Lower(str) == [i \in DOMAIN str |-> LowerChar(str[i])]

RECURSIVE Strip(_)
\* str.strip(): the blanks at both ends are removed
Strip(str) ==
  IF str = <<>> THEN str
  ELSE IF Head(str) = " " THEN Strip(Tail(str))
  ELSE IF str[Len(str)] = " " THEN Strip(SubSeq(str, 1, Len(str) - 1))
  ELSE str

\* pattern in str
Contains(str, pattern) ==
  \E i \in 1..(Len(str) - Len(pattern) + 1) :
    SubSeq(str, i, i + Len(pattern) - 1) = pattern

\* any(pattern in combined for pattern in patterns)
AnyIn(patterns, combined) == \E pattern \in patterns : Contains(combined, pattern)

\* a classification that gives up when an accept match is discarded
ClassifyButtonRoleAcceptOnly(text, label) ==
  LET combined == text \o <<" ">> \o label
  IN  IF AnyIn(AcceptPatterns, combined)
      THEN IF AnyIn(AcceptExclusions, combined) THEN "unknown"
           ELSE "accept_all"
      ELSE IF AnyIn(RejectPatterns, combined) THEN "reject_all"
      ELSE IF AnyIn(SettingsPatterns, combined) THEN "settings"
      ELSE IF AnyIn(InfoPatterns, combined) THEN "info"
      ELSE "unknown"

\* classify_button_role lines 1074-1127
ClassifyButtonRole(text, label) ==
  LET combined == text \o <<" ">> \o label
  IN  IF AnyIn(AcceptPatterns, combined) /\ ~AnyIn(AcceptExclusions, combined)
      THEN "accept_all"
      ELSE IF AnyIn(RejectPatterns, combined) THEN "reject_all"
      ELSE IF AnyIn(SettingsPatterns, combined) THEN "settings"
      ELSE IF AnyIn(InfoPatterns, combined) THEN "info"
      ELSE "unknown"

RECURSIVE Join(_)
\* the words with one blank between them
Join(words) ==
  IF words = <<>> THEN <<>>
  ELSE IF Len(words) = 1 THEN words[1]
  ELSE words[1] \o <<" ">> \o Join(Tail(words))

\* extract_banner_buttons lines 1041-1053: the text is stripped and
\* lower-cased, the aria-label lower-cased, and the button classified
ExtractButton ==
  /\ role_pc = "found"
  /\ role' = ClassifyButtonRole(Lower(Strip(inner_text)), Lower(aria_label))
  /\ role_pc' = "classified"
  /\ UNCHANGED <<inner_text, aria_label, mergeVars, extVars, fnOutside>>

\* extract_banner_buttons line 1039: a button of the banner, with a text of
\* up to MaxWords words, blanks around it or not
InitRole ==
  /\ AuditIdle
  /\ PartIdle
  /\ NavIdle
  /\ DiscIdle
  /\ MergeIdle
  /\ ExtIdle
  /\ \E n \in 0..MaxWords : \E words \in [1..n -> Vocabulary] :
       inner_text \in {Join(words), <<" ">> \o Join(words) \o <<" ">>}
  /\ aria_label \in AriaLabels
  /\ role = "none"
  /\ role_pc = "found"

NextRole == ExtractButton

SpecRole == InitRole /\ [][NextRole]_vars

\* --------------------------- ui_explorer.py: extraction from a discovery
\* line 1219: vendor_items[:500]
MaxVendors == 500
\* line 1335: cookie_items[:1000]
MaxCookies == 1000

\* the three extractors
Extractors == {"categories", "vendors", "cookies"}

\* the section argument: None, a section without items, one with items
SectionArgs == {"None", "empty", "items"}

\* how many items the selectors of the discovery-based path find
ItemCounts == {0, 1, MaxVendors, MaxVendors + 100, MaxCookies + 1}

\* the items that may lack a usable name, or whose extraction may raise
MaybeUnnamed == {1, MaxVendors, MaxVendors + 1}

\* a call of an extractor: the section it is given, the items on the page
\* and the items without a name, whether audit_selectors.yml has a pattern
\* for the CMP, and how many records each static pattern yields
Extractions ==
  [kind : Extractors, section : SectionArgs, items : ItemCounts,
   unnamed : SUBSET MaybeUnnamed, cmp_pattern : BOOLEAN,
   cmp_yield : 0..MaxItems, iab_yield : 0..MaxItems, generic_yield : 0..MaxItems]

\* the smaller of two numbers
Smaller(m, n) == IF m < n THEN m ELSE n

\* a loop over the items that has no limit
AllItems(kind, n) == n

\* lines 1040-1043, 1219 and 1335: how many of the n items the loop visits
ItemsVisited(kind, n) ==
  CASE kind = "categories" -> n
    [] kind = "vendors" -> Smaller(n, MaxVendors)
    [] kind = "cookies" -> Smaller(n, MaxCookies)

\* the records of a path: one for each item of the sequence
RecordsOf(items, path) == [i \in DOMAIN items |-> [item |-> items[i], path |-> path]]

\* lines 1043-1133, 1219-1269, 1335-1422: a record is appended for each
\* visited item that has a name, in the order of the items
DiscoveryRecords(e) ==
  RecordsOf(SelectSeq([i \in 1..ItemsVisited(e.kind, e.items) |-> i],
                      LAMBDA i : i \notin e.unnamed),
            "discovery")

\* the discovery-based path is not entered: lines 1023, 1174, 1311
NoSection(e) == e.section # "items"

\* a test that never sends the extractor to the static path
FallsBackNever(recs) == FALSE

\* lines 1143, 1279, 1431: if not categories / vendors / cookies
FallsBack(recs) == recs = <<>>

\* the static patterns in the order extract_categories (lines 474-490),
\* extract_vendors (lines 623-644) and extract_cookies (lines 789-805) try
\* them; audit_selectors.yml is taken to hold the iab_tcf and generic entries
StaticPatterns(e) ==
  (IF e.cmp_pattern THEN <<"cmp">> ELSE <<>>)
    \o (IF e.kind = "vendors" THEN <<"iab_tcf">> ELSE <<>>)
    \o <<"generic">>

\* the number of records a static pattern yields
YieldOf(e, pattern) ==
  CASE pattern = "cmp" -> e.cmp_yield
    [] pattern = "iab_tcf" -> e.iab_yield
    [] pattern = "generic" -> e.generic_yield

\* the place of the first static pattern that yields records, or of the
\* last one when none does
LastTried(e) ==
  LET hits == {k \in DOMAIN StaticPatterns(e) : YieldOf(e, StaticPatterns(e)[k]) > 0}
  IN  IF hits = {} THEN Len(StaticPatterns(e)) ELSE Least(hits)

\* extract_categories, extract_vendors, extract_cookies: the patterns tried
StaticTried(e) == SubSeq(StaticPatterns(e), 1, LastTried(e))

\* extract_categories, extract_vendors, extract_cookies: the list returned
StaticRecords(e) ==
  LET last == StaticPatterns(e)[LastTried(e)]
  IN  RecordsOf([i \in 1..YieldOf(e, last) |-> i], last)

\* lines 1023-1026, 1174-1177, 1311-1313, and the discovery-based loop with
\* the test that follows it
ExtractFromSection ==
  /\ ext_pc = "called"
  /\ IF NoSection(extraction)
     THEN /\ ext_pc' = "static"
          /\ UNCHANGED <<paths_run, records>>
     ELSE /\ paths_run' = <<"discovery">>
          /\ records' = DiscoveryRecords(extraction)
          /\ ext_pc' = IF FallsBack(DiscoveryRecords(extraction))
                       THEN "static" ELSE "returned"
  /\ UNCHANGED <<extraction, mergeVars, roleVars, fnOutside>>

\* lines 1026, 1145, 1177, 1281, 1313, 1433: return await extract_*(...)
ExtractStatic ==
  /\ ext_pc = "static"
  /\ paths_run' = paths_run \o StaticTried(extraction)
  /\ records' = StaticRecords(extraction)
  /\ ext_pc' = "returned"
  /\ UNCHANGED <<extraction, mergeVars, roleVars, fnOutside>>

\* attempt_detailed_extraction lines 429-437: an extractor is called
InitExtract ==
  /\ AuditIdle
  /\ PartIdle
  /\ NavIdle
  /\ DiscIdle
  /\ MergeIdle
  /\ RoleIdle
  /\ extraction \in Extractions
  /\ paths_run = <<>>
  /\ records = <<>>
  /\ ext_pc = "called"

NextExtract == ExtractFromSection \/ ExtractStatic

SpecExtract == InitExtract /\ [][NextExtract]_vars

\* ------------------- _attempt_modal_opening: the choice of the button
\* the variables outside the smaller parts
partOutside == <<pc, page, caller, args, audit_result, banner_info, context, nav,
                 detailed_data, cancel, response, browser, batch,
                 TRACKING_DOMAINS, cmp_configs, navVars, discVars,
                 mergeVars, roleVars, extVars>>

\* the roles classify_button_role gives
AllButtonRoles == {"accept_all", "reject_all", "settings", "info", "unknown"}

\* the places of the buttons of a role
WithRole(bs, r) == {i \in DOMAIN bs : bs[i] = r}

\* a choice that takes the first button of role settings or info
FirstSettingsOrInfo(bs) ==
  IF WithRole(bs, "settings") \cup WithRole(bs, "info") # {}
  THEN Least(WithRole(bs, "settings") \cup WithRole(bs, "info"))
  ELSE 0

\* lines 261-274: the first button of role settings, else the first of
\* role info, else None (0)
FirstSettingsButton(bs) ==
  IF WithRole(bs, "settings") # {} THEN Least(WithRole(bs, "settings"))
  ELSE IF WithRole(bs, "info") # {} THEN Least(WithRole(bs, "info"))
  ELSE 0

\* _attempt_modal_opening lines 261-279: the button is looked for; without
\* one the function returns None
FindSettingsButton ==
  /\ pick_pc = "called"
  /\ settings_button' = FirstSettingsButton(buttons)
  /\ pick_pc' = IF settings_button' = 0 THEN "returned None" ELSE "found"
  /\ UNCHANGED <<buttons, waitVars, actVars, detVars, partOutside>>

\* a machine built for a banner with up to MaxButtons buttons
InitPick ==
  /\ AuditIdle
  /\ NavIdle
  /\ DiscIdle
  /\ MergeIdle
  /\ RoleIdle
  /\ ExtIdle
  /\ WaitIdle
  /\ ActIdle
  /\ DetIdle
  /\ \E n \in 0..MaxButtons : buttons \in [1..n -> AllButtonRoles]
  /\ settings_button = 0
  /\ pick_pc = "called"

NextPick == FindSettingsButton

SpecPick == InitPick /\ [][NextPick]_vars

\* ------------------------------------------------------- AdaptiveWaiter
\* lines 75-85: CMP_TIMEOUTS, as pairs of a key and its timeouts
CMP_TIMEOUTS ==
  {<<<<"d", "i", "d", "o", "m", "i">>,
     [modal_open |-> 2000, animation |-> 1500, lazy_load |-> 1000]>>,
   <<<<"o", "n", "e", "t", "r", "u", "s", "t">>,
     [modal_open |-> 1000, animation |-> 800, lazy_load |-> 800]>>,
   <<<<"c", "o", "o", "k", "i", "e", "b", "o", "t">>,
     [modal_open |-> 1500, animation |-> 1000, lazy_load |-> 1000]>>,
   <<<<"a", "x", "e", "p", "t", "i", "o">>,
     [modal_open |-> 2500, animation |-> 2000, lazy_load |-> 1500]>>,
   <<<<"s", "o", "u", "r", "c", "e", "p", "o", "i", "n", "t">>,
     [modal_open |-> 1500, animation |-> 1200, lazy_load |-> 1000]>>,
   <<<<"q", "u", "a", "n", "t", "c", "a", "s", "t">>,
     [modal_open |-> 1500, animation |-> 1000, lazy_load |-> 1000]>>,
   <<<<"u", "s", "e", "r", "c", "e", "n", "t", "r", "i", "c", "s">>,
     [modal_open |-> 1800, animation |-> 1200, lazy_load |-> 1000]>>,
   <<<<"s", "f", "b", "x">>,
     [modal_open |-> 3000, animation |-> 3000, lazy_load |-> 2000]>>,
   <<<<"s", "f", "b", "x", "-", "i", "o">>,
     [modal_open |-> 3000, animation |-> 3000, lazy_load |-> 2000]>>}

\* line 87
DEFAULT_TIMEOUTS == [modal_open |-> 3000, animation |-> 1500, lazy_load |-> 1000]

\* the keys of CMP_TIMEOUTS
KnownCmps == {pair[1] : pair \in CMP_TIMEOUTS}

\* line 103: CMP_TIMEOUTS.get(key, DEFAULT_TIMEOUTS)
TimeoutsOf(key) ==
  IF key \in KnownCmps
  THEN (CHOOSE pair \in CMP_TIMEOUTS : pair[1] = key)[2]
  ELSE DEFAULT_TIMEOUTS

\* str.upper() on one character
UpperChar(ch) ==
  IF \E i \in DOMAIN Smalls : Smalls[i] = ch
  THEN Capitals[CHOOSE i \in DOMAIN Smalls : Smalls[i] = ch]
  ELSE ch

\* str.upper()
Upper(str) == [i \in DOMAIN str |-> UpperChar(str[i])]

\* the suffix of CMP type names
CmpSuffix == <<"-", "c", "m", "p">>

RECURSIVE Replaced(_, _)
\* str.replace(old, ""): every occurrence of old is taken out, from the left
Replaced(str, old) ==
  IF Len(str) < Len(old) THEN str
  ELSE IF SubSeq(str, 1, Len(old)) = old
  THEN Replaced(SubSeq(str, Len(old) + 1, Len(str)), old)
  ELSE <<Head(str)>> \o Replaced(Tail(str), old)

\* the names of CMPs: the keys of CMP_TIMEOUTS and two others
CmpNames == KnownCmps \cup {<<"t", "r", "u", "s", "t", "a", "r", "c">>, <<"t", "a", "r", "t", "e", "a", "u", "c", "i", "t", "r", "o", "n">>}

\* the values of banner_info.cmp_type: None (<<>>), or a name as it is or
\* in capitals, with the suffix or without
CmpTypeValues ==
  {<<>>} \cup
  {name \o suffix :
     name \in CmpNames \cup {Upper(n) : n \in CmpNames},
     suffix \in {<<>>, CmpSuffix, Upper(CmpSuffix)}}

\* a normalisation that lower-cases before it removes the suffix
NormalizedLowerFirst(cmp) ==
  IF cmp # <<>> THEN Replaced(Lower(cmp), CmpSuffix) ELSE <<>>

\* lines 96-100: self.cmp_type, <<>> for None
Normalized(cmp) ==
  IF cmp # <<>> THEN Lower(Replaced(cmp, CmpSuffix)) ELSE <<>>

\* AdaptiveWaiter.__init__ lines 89-105
NewAdaptiveWaiter ==
  /\ waiter = Unset
  /\ waiter' = [cmp_type |-> Normalized(cmp_type),
                timeouts |-> TimeoutsOf(Normalized(cmp_type))]
  /\ UNCHANGED <<cmp_type, pickVars, actVars, detVars, partOutside>>

\* NavigationStateMachine.__init__ line 179: AdaptiveWaiter(banner_info.cmp_type)
InitWaiter ==
  /\ AuditIdle
  /\ NavIdle
  /\ DiscIdle
  /\ MergeIdle
  /\ RoleIdle
  /\ ExtIdle
  /\ PickIdle
  /\ ActIdle
  /\ DetIdle
  /\ cmp_type \in CmpTypeValues
  /\ waiter = Unset

NextWaiter == NewAdaptiveWaiter

SpecWaiter == InitWaiter /\ [][NextWaiter]_vars

\* ------------------------ SectionDiscoverer.activate_and_validate_section
\* the class attributes of an activation control: none, "tab",
\* "tab active", "tab inactive", "selected"
ClassValues ==
  {<<>>, <<"t", "a", "b">>, <<"t", "a", "b", " ", "a", "c", "t", "i", "v", "e">>,
   <<"t", "a", "b", " ", "i", "n", "a", "c", "t", "i", "v", "e">>,
   <<"s", "e", "l", "e", "c", "t", "e", "d">>}

\* line 1102: the words looked for in the class attribute
ActiveClasses ==
  {<<"a", "c", "t", "i", "v", "e">>, <<"s", "e", "l", "e", "c", "t", "e", "d">>,
   <<"c", "u", "r", "r", "e", "n", "t">>}

\* an activation control: what get_attribute returns for aria-selected,
\* aria-expanded and class, and which of the three reads raises (0: none)
Controls ==
  [aria_selected : {"true", "false", "None"},
   aria_expanded : {"true", "false", "None"},
   classes : ClassValues, raises_at : 0..3]

\* is_section_active lines 1079-1107: the three attributes are read in
\* turn; an exception makes the answer False
IsSectionActive(b) ==
  IF b.raises_at = 1 THEN FALSE
  ELSE IF b.aria_selected = "true" THEN TRUE
  ELSE IF b.raises_at = 2 THEN FALSE
  ELSE IF b.aria_expanded = "true" THEN TRUE
  ELSE IF b.raises_at = 3 THEN FALSE
  ELSE AnyIn(ActiveClasses, b.classes)

\* validate_section_has_content on the section being activated: n items
\* were counted, or the search raised (lines 1157-1158, 1169-1170)
Counted(sec, n) ==
  [sec EXCEPT !.item_count_after_activation = n, !.contains_items = n > 0]

\* an except branch that returns False without validating
AfterActivationErrorGivesUp(sec, n) ==
  [section |-> [sec EXCEPT !.activation_error = TRUE], result |-> FALSE,
   calls |-> <<>>]

\* lines 1062-1077: the except branch of activate_and_validate_section;
\* the section is validated, and with items it no longer requires
\* activation and the function returns True
AfterActivationError(sec, n) ==
  LET s1 == Counted([sec EXCEPT !.activation_error = TRUE], n)
  IN  [section |-> IF n > 0 THEN [s1 EXCEPT !.activation_required = FALSE] ELSE s1,
       result |-> n > 0,
       calls |-> <<"validate_section_has_content">>]

\* the function returns what the validation of the section gives
ReturnValidated(sec, calls) ==
  \E n \in 0..MaxItems :
    /\ act_section' = Counted(sec, n)
    /\ act_calls' = calls \o <<"validate_section_has_content">>
    /\ act_result' = (n > 0)
    /\ act_pc' = "returned"

\* the function returns through its except branch
ReturnAfterError(calls) ==
  \E n \in 0..MaxItems :
    LET after == AfterActivationError(act_section, n)
    IN  /\ act_section' = after.section
        /\ act_calls' = calls \o after.calls
        /\ act_result' = after.result
        /\ act_pc' = "returned"

\* lines 1020-1037: without an activation locator the section is only
\* validated; else the control is asked whether it is active, and an
\* active one is not clicked
CheckActive ==
  /\ act_pc = "called"
  /\ IF ~act_section.activation_locator
     THEN ReturnValidated(act_section, act_calls)
     ELSE IF IsSectionActive(act_button)
     THEN ReturnValidated([act_section EXCEPT !.was_activated = FALSE],
                          Append(act_calls, "is_section_active"))
     ELSE /\ act_calls' = Append(act_calls, "is_section_active")
          /\ act_pc' = "click"
          /\ UNCHANGED <<act_section, act_result>>
  /\ UNCHANGED <<act_button, pickVars, waitVars, detVars, partOutside>>

\* lines 1039-1043: button.click(timeout=3000) returns or raises
Click ==
  /\ act_pc = "click"
  /\ \/ /\ act_section' = [act_section EXCEPT !.was_activated = TRUE]
        /\ act_calls' = Append(act_calls, "click")
        /\ act_pc' = "wait"
        /\ UNCHANGED act_result
     \/ ReturnAfterError(Append(act_calls, "click raised"))
  /\ UNCHANGED <<act_button, pickVars, waitVars, detVars, partOutside>>

\* lines 1045-1060: the two waits pass and the content is validated, or a
\* wait raises
WaitAndValidate ==
  /\ act_pc = "wait"
  /\ \/ ReturnValidated(act_section, act_calls)
     \/ ReturnAfterError(act_calls)
  /\ UNCHANGED <<act_button, pickVars, waitVars, detVars, partOutside>>

\* discover_all_sections line 347: the function is called for a section
\* with activation_required
InitActivate ==
  /\ AuditIdle
  /\ NavIdle
  /\ DiscIdle
  /\ MergeIdle
  /\ RoleIdle
  /\ ExtIdle
  /\ PickIdle
  /\ WaitIdle
  /\ DetIdle
  /\ act_section \in [activation_locator : BOOLEAN, activation_required : {TRUE},
                       was_activated : {FALSE}, activation_error : {FALSE},
                       item_count_after_activation : {0},
                       contains_items : {FALSE}]
  /\ act_button \in Controls
  /\ act_calls = <<>>
  /\ act_pc = "called"
  /\ act_result = "none"

NextActivate == CheckActive \/ Click \/ WaitAndValidate

SpecActivate == InitActivate /\ [][NextActivate]_vars

\* ---------------------------------------- detect_banner, strategy by strategy
\* the members of a sequence
Range(seq) == {seq[i] : i \in DOMAIN seq}

\* the strategies of detect_banner in the order of the code (lines 179-414)
Strategies ==
  <<"hardcoded", "cmp_specific", "generic", "text_based", "iframes", "shadow_dom">>

\* lines 181-189: the hardcoded detectors in their order
Detectors ==
  <<"sourcepoint", "onetrust", "didomi", "orejime", "trust_commander", "sfbx",
    "lemonde">>

\* the ids of the CMPs of the configuration that are told apart
ConfiguredCmps == {"onetrust", "sourcepoint-cmp"}

\* BannerInfo(...) with the fields the callers read; cmp_type "None" for None
BannerInfo(cmp, method, iframe, shadow, bs) ==
  [detected |-> TRUE, cmp_type |-> cmp, detection_method |-> method,
   in_iframe |-> iframe, in_shadow_dom |-> shadow, buttons |-> bs]

\* line 417: BannerInfo(detected=False) with the defaults of audit_schemas.py
NotDetected ==
  [detected |-> FALSE, cmp_type |-> "None", detection_method |-> "none",
   in_iframe |-> FALSE, in_shadow_dom |-> FALSE, buttons |-> <<>>]

\* the button lists extract_banner_buttons can return, by role
ExtractedButtons == UNION {[1..n -> AllButtonRoles] : n \in 0..MaxButtons}

\* the buttons of seq whose role is in roles, in the order of seq
Keep(seq, roles) == SelectSeq(seq, LAMBDA btn : btn \in roles)

\* every hardcoded detector looking for the three buttons
HardcodedButtonsAllAlike(name) ==
  {Keep(<<"accept_all", "reject_all", "settings">>, roles) :
     roles \in SUBSET {"accept_all", "reject_all", "settings"}}

\* lines 197-368: the buttons a hardcoded detector's branch can collect;
\* each button is appended when it is found, and an exception ends the
\* collection; sourcepoint, didomi and sfbx have no branch
HardcodedButtons(name) ==
  IF name = "lemonde"
  THEN {Keep(<<"accept_all", "reject_all">>, roles) :
          roles \in SUBSET {"accept_all", "reject_all"}}
  ELSE IF name \in {"onetrust", "trust_commander", "orejime"}
  THEN {Keep(<<"accept_all", "reject_all", "settings">>, roles) :
          roles \in SUBSET {"accept_all", "reject_all", "settings"}}
  ELSE {<<>>}

\* both searches run whatever the configuration says
StrategyEnabledAlways(config, s) == TRUE

\* lines 403 and 410: the iframe search and the shadow-DOM search are run
\* only when the configuration supports them
StrategyEnabled(config, s) ==
  CASE s = "iframes" -> config.support_nested_iframes
    [] s = "shadow_dom" -> config.support_shadow_dom
    [] OTHER -> TRUE

\* a strategy is attempted and what it produced is noted
Attempted(s, produced) ==
  /\ det_tried' = Append(det_tried, s)
  /\ det_yield' = Append(det_yield, produced)

\* detect_banner returns b
Returns(b) ==
  /\ det_banner' = b
  /\ det_pc' = "returned"

\* lines 191-379: the hardcoded detector that is next finds its modal, and
\* the banner is returned with the buttons of its branch; or it finds
\* none or raises, and the next detector, or the next strategy, follows
TryHardcoded ==
  /\ det_pc = "hardcoded"
  /\ \/ /\ \E bs \in HardcodedButtons(Detectors[det_detector]) :
             Returns(BannerInfo(Detectors[det_detector], "hardcoded_detector",
                                FALSE, FALSE, bs))
        /\ IF det_detector = 1 THEN Attempted("hardcoded", TRUE)
           ELSE /\ det_yield' = [det_yield EXCEPT ![Len(det_yield)] = TRUE]
                /\ UNCHANGED det_tried
        /\ UNCHANGED det_detector
     \/ /\ IF det_detector = 1 THEN Attempted("hardcoded", FALSE)
           ELSE UNCHANGED <<det_tried, det_yield>>
        /\ IF det_detector < Len(Detectors)
           THEN /\ det_detector' = det_detector + 1
                /\ UNCHANGED det_pc
           ELSE /\ det_pc' = "cmp_specific"
                /\ UNCHANGED det_detector
        /\ UNCHANGED det_banner
  /\ UNCHANGED <<det_config, det_audit, pickVars, waitVars, actVars, partOutside>>

\* lines 381-390: detect_cmp_banner locates a CMP of the configuration and
\* what extract_banner_info returns is returned, a banner or None; or it
\* locates none
DetectCmpSpecific ==
  /\ det_pc = "cmp_specific"
  /\ \/ \E cmp \in ConfiguredCmps, iframe \in BOOLEAN, bs \in ExtractedButtons :
          /\ Attempted("cmp_specific", TRUE)
          /\ Returns(BannerInfo(cmp, "cmp_specific", iframe, FALSE, bs))
     \/ /\ Attempted("cmp_specific", FALSE)
        /\ Returns(PyNone)
     \/ /\ Attempted("cmp_specific", FALSE)
        /\ det_pc' = "generic"
        /\ UNCHANGED det_banner
  /\ UNCHANGED <<det_config, det_detector, det_audit, pickVars, waitVars, actVars,
                 partOutside>>

\* lines 392-395 and 492-556: detect_generic_banner returns a banner, which
\* is returned, or None
DetectGeneric ==
  /\ det_pc = "generic"
  /\ \/ \E bs \in ExtractedButtons :
          /\ Attempted("generic", TRUE)
          /\ Returns(BannerInfo("None", "generic", FALSE, FALSE, bs))
     \/ /\ Attempted("generic", FALSE)
        /\ det_pc' = "text_based"
        /\ UNCHANGED det_banner
  /\ UNCHANGED <<det_config, det_detector, det_audit, pickVars, waitVars, actVars,
                 partOutside>>

\* lines 397-400 and 559-598: detect_text_based_banner returns a banner or
\* None, or raises when the selector file cannot be loaded (line 572)
DetectTextBased ==
  /\ det_pc = "text_based"
  /\ \/ \E bs \in ExtractedButtons :
          /\ Attempted("text_based", TRUE)
          /\ Returns(BannerInfo("None", "text_based", FALSE, FALSE, bs))
     \/ /\ Attempted("text_based", FALSE)
        /\ det_pc' = "iframes"
        /\ UNCHANGED det_banner
     \/ /\ Attempted("text_based", FALSE)
        /\ det_pc' = "raised"
        /\ UNCHANGED det_banner
  /\ UNCHANGED <<det_config, det_detector, det_audit, pickVars, waitVars, actVars,
                 partOutside>>

\* lines 402-407 and 1130-1179: with support_nested_iframes the generic
\* detection is run in the frames, and a banner found there is returned
\* with in_iframe set
SearchInIframes ==
  /\ det_pc = "iframes"
  /\ IF StrategyEnabled(det_config, "iframes")
     THEN \/ \E bs \in ExtractedButtons :
               /\ Attempted("iframes", TRUE)
               /\ Returns(BannerInfo("None", "generic", TRUE, FALSE, bs))
          \/ /\ Attempted("iframes", FALSE)
             /\ det_pc' = "shadow_dom"
             /\ UNCHANGED det_banner
     ELSE /\ det_pc' = "shadow_dom"
          /\ UNCHANGED <<det_tried, det_yield, det_banner>>
  /\ UNCHANGED <<det_config, det_detector, det_audit, pickVars, waitVars, actVars,
                 partOutside>>

\* lines 409-417 and 1182-1241: with support_shadow_dom the shadow roots are
\* searched, and a banner found there is returned; else
\* BannerInfo(detected=False) is returned
SearchInShadowDom ==
  /\ det_pc = "shadow_dom"
  /\ IF StrategyEnabled(det_config, "shadow_dom")
     THEN \/ /\ Attempted("shadow_dom", TRUE)
             /\ Returns(BannerInfo("shadow_dom_custom", "shadow_dom", FALSE, TRUE,
                                   <<>>))
          \/ /\ Attempted("shadow_dom", FALSE)
             /\ Returns(NotDetected)
     ELSE /\ Returns(NotDetected)
          /\ UNCHANGED <<det_tried, det_yield>>
  /\ UNCHANGED <<det_config, det_detector, det_audit, pickVars, waitVars, actVars,
                 partOutside>>

\* what audit_url reads of a banner: whether it has a CMP type, and the
\* roles of its buttons that the navigation looks for
AsRead(b) ==
  IF b = PyNone THEN PyNone
  ELSE [detected |-> b.detected, cmp_type |-> b.cmp_type # "None",
        roles |-> Range(b.buttons) \cap ButtonRoles]

\* audit_crawl.py lines 130-195: audit_url goes on with the banner that
\* detect_banner returned, up to its next await
AuditGoesOn ==
  /\ det_pc = "returned"
  /\ \E shot \in BOOLEAN, depth \in 0..1 :
       det_audit' = [max_ui_depth |-> depth,
                     cont |-> AfterBanner(AttachBanner(NewAuditResult(<<"unknown">>),
                                                       AsRead(det_banner)),
                                          AsRead(det_banner), shot, depth)]
  /\ det_pc' = "audited"
  /\ UNCHANGED <<det_config, det_detector, det_tried, det_yield, det_banner,
                 pickVars, waitVars, actVars, partOutside>>

\* audit_crawl.py line 132: detect_banner(page, cmp_configs, config) is called
InitDetect ==
  /\ AuditIdle
  /\ NavIdle
  /\ DiscIdle
  /\ MergeIdle
  /\ RoleIdle
  /\ ExtIdle
  /\ PickIdle
  /\ WaitIdle
  /\ ActIdle
  /\ det_config \in [support_nested_iframes : BOOLEAN, support_shadow_dom : BOOLEAN]
  /\ det_pc = "hardcoded"
  /\ det_detector = 1
  /\ det_tried = <<>>
  /\ det_yield = <<>>
  /\ det_banner = Unset
  /\ det_audit = Unset

NextDetect ==
  \/ TryHardcoded
  \/ DetectCmpSpecific
  \/ DetectGeneric
  \/ DetectTextBased
  \/ SearchInIframes
  \/ SearchInShadowDom
  \/ AuditGoesOn

SpecDetect == InitDetect /\ [][NextDetect]_vars

\* ---------------------------------------------------------------- api.py
\* the suspension points of audit_url: where a cancellation can arrive
AwaitPcs == {"new_context", "new_page", "goto", "goto_close", "mouse", "wait",
             "detect", "screenshot", "nav_open", "nav_validate", "discover",
             "extract", "shot_ui", "cookies", "close"}

\* the suspension points that lie, in audit_url or in the code it calls,
\* inside a try block with a bare "except:", which also catches
\* asyncio.CancelledError (audit_crawl.py 118, banner_detector.py 448,
\* navigation_state_machine.py 353 and 545, ui_explorer.py 1110)
SwallowPcs == {"mouse", "detect", "nav_open", "nav_validate", "extract"}

\* startup_event (lines 122-147): the shared browser is launched, or the
\* launch raises and the service does not come up
Startup ==
  /\ browser = "none"
  /\ \/ browser' = "launched"
     \/ browser' = "failed"
  /\ UNCHANGED <<pc, page, caller, args, audit_result, banner_info, context, nav,
                 detailed_data, cancel, response, batch,
                 TRACKING_DOMAINS, cmp_configs, navVars, discVars, fnVars>>

\* audit_endpoint lines 233-257: 503 while the browser is not there yet (a
\* service whose startup failed serves nothing); the config overrides
\* are parsed (an unknown key raises: 500); audit_url is called under
\* asyncio.wait_for with the URL that pydantic validated
AuditEndpoint(a) ==
  /\ pc[a] = "idle"
  /\ response[a] = 0
  /\ browser \in {"none", "launched"}
  /\ IF browser # "launched"
     THEN /\ response' = [response EXCEPT ![a] = 503]
          /\ pc' = [pc EXCEPT ![a] = "rejected"]
          /\ UNCHANGED <<page, caller, args, audit_result, banner_info, context,
                         nav, detailed_data, cancel, browser, batch,
                         TRACKING_DOMAINS, cmp_configs, navVars, discVars, fnVars>>
     ELSE \/ /\ response' = [response EXCEPT ![a] = 500]
             /\ pc' = [pc EXCEPT ![a] = "rejected"]
             /\ UNCHANGED <<page, caller, args, audit_result, banner_info, context,
                            nav, detailed_data, cancel, browser, batch,
                            TRACKING_DOMAINS, cmp_configs, navVars, discVars, fnVars>>
          \/ \E url \in HttpUrls, shot \in BOOLEAN, depth \in UiDepths :
               AuditCall(a, "endpoint", url, shot, depth)

\* asyncio.wait_for (lines 249-263): after 120 s the task of audit_url is
\* cancelled at the await it is suspended in.  CancelledError is not an
\* Exception: no handler of audit_url catches it, the coroutine ends there
\* and the endpoint answers 504; inside a bare "except:" the cancellation is
\* swallowed and the audit runs on
Timeout(a) ==
  /\ caller[a] = "endpoint"
  /\ pc[a] \in AwaitPcs
  /\ cancel[a] = "none"
  /\ \/ /\ cancel' = [cancel EXCEPT ![a] = "raised"]
        /\ pc' = [pc EXCEPT ![a] = "cancelled"]
        /\ response' = [response EXCEPT ![a] = 504]
     \/ /\ pc[a] \in SwallowPcs
        /\ cancel' = [cancel EXCEPT ![a] = "swallowed"]
        /\ UNCHANGED <<pc, response>>
  /\ UNCHANGED <<page, caller, args, audit_result, banner_info, context, nav,
                 detailed_data, browser, batch, TRACKING_DOMAINS, cmp_configs,
                 navVars, discVars, fnVars>>

\* lines 258-270: audit_url returned and the result is sent; after a
\* swallowed cancellation wait_for still raises TimeoutError (Python up to
\* 3.11) or returns the result (3.12)
Respond(a) ==
  /\ caller[a] = "endpoint"
  /\ pc[a] = "returned"
  /\ response[a] = 0
  /\ \/ response' = [response EXCEPT ![a] = 200]
     \/ /\ cancel[a] = "swallowed"
        /\ response' = [response EXCEPT ![a] = 504]
  /\ UNCHANGED <<pc, page, caller, args, audit_result, banner_info, context, nav,
                 detailed_data, cancel, browser, batch,
                 TRACKING_DOMAINS, cmp_configs, navVars, discVars, fnVars>>

\* shutdown_event (lines 150-168), once no request is being served:
\* browser.close() also ends the contexts still open in it
Shutdown ==
  /\ browser = "launched"
  /\ \A a \in AuditIds : pc[a] \notin AwaitPcs
  /\ browser' = "closed"
  /\ context' = [a \in AuditIds |-> IF context[a] = "open" THEN "closed" ELSE context[a]]
  /\ UNCHANGED <<pc, page, caller, args, audit_result, banner_info, nav,
                 detailed_data, cancel, response, batch,
                 TRACKING_DOMAINS, cmp_configs, navVars, discVars, fnVars>>

InitService ==
  /\ pc = Idle("idle")
  /\ page = Idle("none")
  /\ caller = Idle("none")
  /\ args = Idle(NoArgs)
  /\ audit_result = Idle(NoResult)
  /\ banner_info = Idle(Unset)
  /\ context = Idle("none")
  /\ nav = Idle(NoNav)
  /\ detailed_data = Idle(Unset)
  /\ cancel = Idle("none")
  /\ response = Idle(0)
  /\ browser = "none"
  /\ batch = "idle"
  /\ TRACKING_DOMAINS \in BlocklistStates
  /\ cmp_configs = Idle("none")
  /\ NavIdle
  /\ DiscIdle
  /\ FnIdle

NextService ==
  \/ Startup
  \/ Shutdown
  \/ \E a \in ServiceIds : AuditEndpoint(a)
  \/ \E a \in ServiceIds : AuditStep(a)
  \/ \E a \in ServiceIds : Timeout(a)
  \/ \E a \in ServiceIds : Respond(a)

SpecService == InitService /\ [][NextService]_vars

\* ----------------------------------------------------------------- claims
SuccessStatuses == {"success_basic", "success_detailed"}

Raised == [raised |-> TRUE]

\* detect_banner returned in audit a (a BannerInfo, or None)
DetectReturned(a) == banner_info[a] # Unset

\* attempt_detailed_extraction was called in audit a
DetailedAttempted(a) == nav[a].current_state # "none"

\* C1: audit_url returns an AuditResult and never raises, whatever the URL
\* and the configuration.
C1_NeverRaises == \A a \in AuditIds : pc[a] # "raised"

\* C2: in an audit that obtained a detected banner, once the status is
\* success_basic or success_detailed no later step sets it to error or back
\* to pending, success_detailed is never left, and the status becomes error
\* only from pending, before detect_banner returned.
C2_StatusNeverDemoted ==
  [][\A a \in AuditIds :
       banner_info'[a] \in DetectedBanners
         => /\ audit_result[a].status \in SuccessStatuses
                 => audit_result'[a].status \in SuccessStatuses
            /\ audit_result[a].status = "success_detailed"
                 => audit_result'[a].status = "success_detailed"
            /\ (audit_result[a].status # "error" /\ audit_result'[a].status = "error")
                 => audit_result[a].status = "pending" /\ ~DetectReturned(a)]_vars

\* C3: when detect_banner returned a BannerInfo with detected = false, the
\* returned result has a status other than success_basic and
\* success_detailed and carries that BannerInfo.
C3_NoBannerIsNotSuccess ==
  \A a \in AuditIds :
    (pc[a] = "returned" /\ banner_info[a] = NoBannerInfo)
      => /\ audit_result[a].status \notin SuccessStatuses
         /\ audit_result[a].banner_info = NoBannerInfo

\* C4 as stated: success_detailed only after a detailed extraction that
\* returned a category or a vendor, and the detailed extraction is attempted
\* only with a settings button and max_ui_depth > 0.
C4_GateIsSettingsButton ==
  \A a \in AuditIds :
    /\ audit_result[a].status = "success_detailed"
         => /\ DetailedAttempted(a)
            /\ detailed_data[a] \notin {Unset, PyNone, Raised}
            /\ detailed_data[a].categories > 0 \/ detailed_data[a].vendors > 0
    /\ DetailedAttempted(a)
         => "settings" \in banner_info[a].roles /\ args[a].max_ui_depth > 0

\* C4 amended: success_detailed only after a detailed extraction that
\* returned a category or a vendor, and the detailed extraction is attempted
\* only when max_ui_depth > 0 and the banner has a settings button or a
\* cmp_type.
C4_GateIsSettingsOrCmp ==
  \A a \in AuditIds :
    /\ audit_result[a].status = "success_detailed"
         => /\ DetailedAttempted(a)
            /\ detailed_data[a] \notin {Unset, PyNone, Raised}
            /\ detailed_data[a].categories > 0 \/ detailed_data[a].vendors > 0
    /\ DetailedAttempted(a)
         => /\ "settings" \in banner_info[a].roles \/ banner_info[a].cmp_type
            /\ args[a].max_ui_depth > 0

\* a result upgraded to success_detailed for a banner without settings button
C4_Witness ==
  \E a \in AuditIds :
    /\ audit_result[a].status = "success_detailed"
    /\ "settings" \notin banner_info[a].roles
    /\ pc[a] = "returned"

\* C5: an exception of attempt_detailed_extraction is caught and recorded in
\* ui_context.errors, the status stays success_basic, and the audit goes on
\* to the cookie read and the context close.
C5_DetailedFailureContained ==
  \A a \in AuditIds :
    detailed_data[a] = Raised
      => /\ pc[a] \in {"cookies", "close", "returned"}
         /\ audit_result[a].errors = <<"Detailed extraction failed">>
         /\ pc[a] \in {"cookies", "close"} => audit_result[a].status = "success_basic"
         /\ pc[a] = "returned"
              => \/ audit_result[a].status = "success_basic" /\ context[a] = "closed"
                 \/ audit_result[a].status = "error" /\ context[a] = "open"

\* the detailed extraction raised and the audit has reached the context close
C5_Witness ==
  \E a \in AuditIds :
    /\ detailed_data[a] = Raised
    /\ pc[a] = "returned"
    /\ audit_result[a].status = "success_basic"
    /\ context[a] = "closed"

\* C6: whenever audit_url returns and a context was created, that context is
\* closed.
C6_ContextClosedOnReturn ==
  \A a \in AuditIds :
    (pc[a] = "returned" /\ context[a] # "none") => context[a] = "closed"

\* C7: when the 120 s budget of audit_endpoint expires while audit_url is in
\* flight, the audit is aborted, its context is closed, and the shared
\* browser stays launched.
C7_TimeoutClosesContext ==
  \A a \in AuditIds :
    (pc[a] = "cancelled" /\ browser # "closed")
      => context[a] # "open" /\ browser = "launched"

\* C8: audit_batch is not halted by a failure: it ends with the results of
\* its URLs stored, never by raising.
C8_BatchNotHalted == batch # "raised"

\* C9: a page.goto timeout does not end the audit, which goes on towards
\* banner detection with the status still pending; any other page.goto
\* exception sets the status to error, closes the context and returns
\* without running banner detection.
C9_GotoOutcomes ==
  \A a \in AuditIds :
    /\ page[a] = "error"
         => /\ audit_result[a].status = "error"
            /\ ~DetectReturned(a)
            /\ pc[a] \in {"goto_close", "returned"}
            /\ pc[a] = "returned"
                 => context[a] = "closed" \/ audit_result[a].status_msg = "Error"
    /\ page[a] = "timeout"
         => /\ pc[a] # "goto_close"
            /\ pc[a] \in {"mouse", "wait", "detect"}
                 => audit_result[a].status = "pending"
            /\ ~DetectReturned(a)
                 => \/ pc[a] \in {"mouse", "wait", "detect"}
                    \/ pc[a] = "returned" /\ audit_result[a].status_msg = "Error"

\* banner detection ran after a page.goto timeout
C9_Witness ==
  \E a \in AuditIds :
    /\ page[a] = "timeout"
    /\ banner_info[a] \in DetectedBanners
    /\ audit_result[a].status \in SuccessStatuses

\* C10: the stages of one audit run in the order detect banner, open modal,
\* discover sections, extract: the navigation flow starts only after
\* detect_banner returned, discovery only after the flow returned a modal
\* with final_state MODAL_READY, extraction only after discovery returned,
\* and neither runs when the flow returned no modal.
C10_StageOrder ==
  [][\A a \in AuditIds :
       /\ (~DetailedAttempted(a) /\ DetailedAttempted(a)')
            => /\ pc[a] \in {"detect", "screenshot"}
               /\ banner_info'[a] \in DetectedBanners \cup {NoBannerInfo}
       /\ (pc[a] # "discover" /\ pc'[a] = "discover")
            => /\ pc[a] = "nav_validate"
               /\ nav'[a].modal
               /\ nav'[a].final_state = "MODAL_READY"
       /\ (pc[a] # "extract" /\ pc'[a] = "extract") => pc[a] = "discover"
       /\ nav'[a].final_state = "FAILED" => pc'[a] \notin {"discover", "extract"}]_vars

\* an audit whose extraction runs on a modal the flow returned
C10_Witness ==
  \E a \in AuditIds :
    /\ pc[a] = "extract"
    /\ nav[a].final_state = "MODAL_READY"
    /\ nav[a].transitions = <<<<"BANNER_DETECTED", "MODAL_OPENING">>,
                              <<"MODAL_OPENING", "MODAL_READY">>>>

\* everything audit b owns: its coroutine, context, page, result and the
\* objects it loaded
AuditStateOf(b) ==
  <<pc[b], page[b], args[b], audit_result[b], banner_info[b], context[b],
    nav[b], detailed_data[b], cmp_configs[b]>>

\* C11: concurrent audits share no mutable state: a step of one audit
\* changes nothing that another audit owns (context, page, result, loaded
\* configuration), and no step of an audit writes the shared browser handle
\* or the tracking-domain blocklist.
C11_NoSharedMutableState ==
  [][/\ browser' = browser
     /\ TRACKING_DOMAINS' = TRACKING_DOMAINS
     /\ \A a \in AuditIds : \A b \in AuditIds \ {a} :
          pc'[a] # pc[a] => AuditStateOf(b)' = AuditStateOf(b)]_vars

\* two audits in flight on the same browser, the first having stored a
\* matched selector in its cmp_configs while the second holds its own list
C11_Witness ==
  /\ context[1] = "open" /\ context[2] = "open"
  /\ cmp_configs[1] = "marked" /\ cmp_configs[2] = "loaded"
  /\ pc[1] = "nav_open" /\ pc[2] = "detect"

\* C12: detect_banner always returns a BannerInfo, never None: whenever it
\* returned, the value is a detected banner or the marker with
\* detected = false, also when a strategy located an element it could not
\* extract a banner from.
C12_DetectReturnsBannerInfo ==
  \A a \in AuditIds :
    DetectReturned(a) => banner_info[a] \in DetectedBanners \cup {NoBannerInfo}

\* execute_navigation_flow has returned
NavReturned == nav_pc = "done"

\* a strategy has an attempt record in the report
Recorded(name) == \E i \in DOMAIN attempts : attempts[i].strategy = name

\* C13: execute_navigation_flow starts in BANNER_DETECTED and returns a
\* report whose final_state is MODAL_READY or FAILED, and the modal handle
\* it returns is non-null exactly when final_state is MODAL_READY.
C13_FlowEndsReadyOrFailed ==
  /\ nav_pc = "start" => machine.current_state = "BANNER_DETECTED"
  /\ NavReturned
       => /\ machine.transitions[1][1] = "BANNER_DETECTED"
          /\ machine.final_state \in {"MODAL_READY", "FAILED"}
          /\ machine.modal <=> machine.final_state = "MODAL_READY"
          /\ modal_locator # "none" <=> machine.final_state = "MODAL_READY"

\* the flow returned a ready modal after a strategy that failed
C13_Witness ==
  /\ NavReturned
  /\ machine.final_state = "MODAL_READY"
  /\ modal_locator = "modal"
  /\ Len(attempts) = 2
  /\ ~attempts[1].success

\* C14: every click strategy the flow tried has at least one attempt record
\* in the returned report; when the button was clicked and no modal was ever
\* detected, the flow returns None with final_state FAILED and every tried
\* strategy has a recorded failed attempt.
C14_EveryTriedStrategyRecorded ==
  NavReturned
    => /\ \A name \in tried : Recorded(name)
       /\ (clicked /\ \A i \in DOMAIN attempts : ~attempts[i].success)
            => /\ machine.final_state = "FAILED"
               /\ modal_locator = "none"

\* C15: when no click ever opened a settings modal, so that the page still
\* shows only the initial banner, modal detection never hands back that
\* banner, and the flow returns None with final_state FAILED.
C15_BannerNotReturnedAsModal ==
  /\ modal_locator # "banner"
  /\ (NavReturned /\ clicked /\ shown = "banner")
       => machine.final_state = "FAILED" /\ ~machine.modal

\* C16: with no button of role settings and none of role info the flow
\* fails at once: an error is recorded, nothing is clicked, no strategy is
\* tried, no attempt is recorded, and None is returned with final_state
\* FAILED.
C16_NoButtonFailsAtOnce ==
  (nav_pc \notin {"idle", "start"} /\ nav_banner.roles = {})
    => /\ NavReturned
       /\ machine.errors >= 1
       /\ ~clicked
       /\ tried = {}
       /\ attempts = <<>>
       /\ machine.final_state = "FAILED"
       /\ ~machine.modal
       /\ modal_locator = "none"

\* the flow returned for a banner without settings or info button, with the
\* error of the missing button and the error of the failed opening
C16_Witness ==
  /\ NavReturned
  /\ nav_banner.roles = {}
  /\ machine.errors = 2

\* C17: every change of the machine's state appends one entry to
\* report.transitions, so the log is a chain: it starts at BANNER_DETECTED,
\* each entry starts where the one before ended, the last entry ends in the
\* current state, and in final_state once the report is returned, whatever
\* the path, an exception inside the flow included.
C17_TransitionsChain ==
  nav_pc # "idle"
    => LET t == machine.transitions
       IN  /\ machine.current_state =
                (IF t = <<>> THEN "BANNER_DETECTED" ELSE t[Len(t)][2])
           /\ t # <<>> => t[1][1] = "BANNER_DETECTED"
           /\ \A i \in 1..(Len(t) - 1) : t[i + 1][1] = t[i][2]
           /\ NavReturned => t # <<>> /\ t[Len(t)][2] = machine.final_state

\* the flow returned its report after an exception inside it, a button
\* being there and nothing having been tried
C17_Witness ==
  /\ NavReturned
  /\ nav_banner.roles # {}
  /\ tried = {}
  /\ machine.transitions = <<<<"BANNER_DETECTED", "MODAL_OPENING">>,
                             <<"MODAL_OPENING", "FAILED">>>>

\* discover_all_sections has returned its result
Discovered == disc_pc = "done"

\* the best section of a content type in the result, 0 for None
BestSection(type) ==
  CASE type = "categories" -> discovery.categories_section
    [] type = "vendors" -> discovery.vendors_section
    [] type = "cookies" -> discovery.cookies_section
    [] type = "purposes" -> discovery.purposes_section

\* C18: every section returned as categories_section, vendors_section,
\* cookies_section or purposes_section has contains_items = true and
\* item_count_after_activation > 0, also after the lazy-load check
\* validated it again.
C18_BestSectionsHaveItems ==
  Discovered
    => \A type \in ContentTypes :
         BestSection(type) # 0
           => /\ merged_sections[BestSection(type)].content_type = type
              /\ merged_sections[BestSection(type)].contains_items
              /\ merged_sections[BestSection(type)].item_count_after_activation > 0

\* a result whose best vendors section is the second one of its type, the
\* first having lost its items in the lazy-load check
C18_Witness ==
  /\ Discovered
  /\ discovery.vendors_section = 2
  /\ merged_sections[2].rechecked
  /\ merged_sections[1].content_type = "vendors"
  /\ merged_sections[1].rechecked
  /\ ~merged_sections[1].contains_items

\* C19: each best section has the highest confidence among the merged
\* sections of its content type that contain items (and there is a best
\* section whenever such a section exists).
C19_BestHasHighestConfidence ==
  Discovered
    => \A type \in ContentTypes :
         /\ WithItems(merged_sections, type) # {} => BestSection(type) # 0
         /\ BestSection(type) # 0
              => /\ BestSection(type) \in WithItems(merged_sections, type)
                 /\ \A j \in WithItems(merged_sections, type) :
                      merged_sections[j].confidence
                        <= merged_sections[BestSection(type)].confidence

\* C20: a merged section whose validation counted zero indicator elements
\* is never a best section, and it is still in the sections list of the
\* result.
C20_EmptySectionKeptForDiagnostics ==
  Discovered
    => \A i \in DOMAIN merged_sections :
         merged_sections[i].item_count_after_activation = 0
           => /\ \A type \in ContentTypes : BestSection(type) # i
              /\ i \in Range(discovery.sections)

\* the places in a list of sections that hold a section of the type
PlacesOfType(secs, type) == {i \in DOMAIN secs : secs[i].content_type = type}

\* C21: when the candidates of a content type are two sections with the
\* same non-empty activation_locator, merge_discoveries returns exactly one
\* section of that content type, and its discovery_method is hybrid.
C21_SameActivationLocatorMerged ==
  merge_pc = "returned"
    => \A type \in MergeTypes :
         \A i, j \in PlacesOfType(all_sections, type) :
           ( /\ PlacesOfType(all_sections, type) = {i, j}
             /\ i # j
             /\ all_sections[i].activation_locator # "None"
             /\ all_sections[i].activation_locator
                  = all_sections[j].activation_locator )
             => /\ Cardinality(PlacesOfType(merged, type)) = 1
                /\ \A k \in PlacesOfType(merged, type) :
                     merged[k].discovery_method = "hybrid"

\* two candidates from different tiers that share only their
\* activation_locator have been merged into one section
C21_Witness ==
  /\ merge_pc = "returned"
  /\ Len(all_sections) = 2
  /\ all_sections[1].content_type = all_sections[2].content_type
  /\ all_sections[1].activation_locator = "#b"
  /\ all_sections[2].activation_locator = "#b"
  /\ all_sections[1].discovery_method = "aria_semantic"
  /\ all_sections[2].discovery_method = "yaml_fallback"
  /\ all_sections[1].locator # all_sections[2].locator
  /\ all_sections[1].button_text = ""
  /\ Len(merged) = 1
  /\ merged[1].discovery_method = "hybrid"

\* C22: at every point of section discovery, contains_items of a section
\* equals item_count_after_activation > 0; both have their defaults
\* (false, 0) while no validation pass has run on the section, and both
\* are (false, 0) after a validation pass that raised.
C22_ContainsItemsFollowsCount ==
  \A i \in DOMAIN merged_sections :
    LET sec == merged_sections[i]
    IN  /\ sec.contains_items = (sec.item_count_after_activation > 0)
        /\ sec.validation \in {"none", "raised"}
             => ~sec.contains_items /\ sec.item_count_after_activation = 0

\* a vendors section that had items when first validated and whose
\* validation after the scroll raised
C22_Witness ==
  \E i \in DOMAIN merged_sections :
    /\ merged_sections[i].rechecked
    /\ merged_sections[i].validation = "raised"
    /\ disc_pc = "done"

\* the button text "Accepter tout"
AccepterTout == Join(<<<<"A", "c", "c", "e", "p", "t", "e", "r">>, <<"t", "o", "u", "t">>>>)

\* the button text "Continuer sans accepter"
ContinuerSansAccepter ==
  Join(<<<<"C", "o", "n", "t", "i", "n", "u", "e", "r">>, <<"s", "a", "n", "s">>,
         <<"a", "c", "c", "e", "p", "t", "e", "r">>>>)

\* the button text "Gérer mes choix"
GererMesChoix ==
  Join(<<<<"G", "é", "r", "e", "r">>, <<"m", "e", "s">>, <<"c", "h", "o", "i", "x">>>>)

\* the button was classified from its text alone
ClassifiedByText == role_pc = "classified" /\ aria_label = <<>>

\* one of the patterns of classify_button_role is in the string
MatchesAPattern(str) ==
  AnyIn(AcceptPatterns \cup RejectPatterns \cup SettingsPatterns \cup InfoPatterns,
        str)

\* C23: a button with the text "Accepter tout" is given the role
\* accept_all, one with "Continuer sans accepter" reject_all, one with
\* "Gérer mes choix" settings, and one whose lower-cased text holds no
\* keyword unknown.
C23_ButtonRoles ==
  ClassifiedByText
    => /\ inner_text = AccepterTout => role = "accept_all"
       /\ inner_text = ContinuerSansAccepter => role = "reject_all"
       /\ inner_text = GererMesChoix => role = "settings"
       /\ ~MatchesAPattern(Lower(Strip(inner_text))) => role = "unknown"

\* the extractor has returned
Extracted == ext_pc = "returned"

\* the place of a path in paths_run, 0 when it was not run
PlaceOf(path) ==
  IF \E k \in DOMAIN paths_run : paths_run[k] = path
  THEN CHOOSE k \in DOMAIN paths_run : paths_run[k] = path
  ELSE 0

\* C24: for categories, vendors and cookies alike, when the
\* discovery-based path yields no record (no section, a section without
\* items, or nothing extracted) the static path is run, its CMP-specific
\* pattern first and its generic pattern only if that one yielded nothing;
\* a non-empty discovery-based result is returned as it is and the static
\* path is not run.
C24_StaticPathWhenNothingDiscovered ==
  Extracted
    => LET e == extraction
           discovered == IF NoSection(e) THEN <<>> ELSE DiscoveryRecords(e)
       IN  /\ discovered # <<>>
                => records = discovered /\ paths_run = <<"discovery">>
           /\ discovered = <<>>
                => /\ PlaceOf("cmp") + PlaceOf("iab_tcf") + PlaceOf("generic") > 0
                   /\ records = StaticRecords(e)
                   /\ e.cmp_pattern
                        => /\ PlaceOf("cmp") > 0
                           /\ \A k \in 1..(PlaceOf("cmp") - 1) :
                                paths_run[k] = "discovery"
                   /\ PlaceOf("generic") > 0
                        => /\ PlaceOf("cmp") < PlaceOf("generic")
                           /\ e.cmp_pattern => e.cmp_yield = 0

\* a section with items from which nothing could be extracted, after
\* which the CMP-specific pattern yielded nothing and the generic one did
C24_Witness ==
  /\ Extracted
  /\ extraction.section = "items"
  /\ extraction.kind = "cookies"
  /\ paths_run = <<"discovery", "cmp", "generic">>
  /\ records # <<>>

\* C25: the vendor extractor never returns more than 500 records, and for
\* 600 vendor items that all have a name it returns exactly 500 records,
\* those of the first 500 items in their order.
C25_VendorsCappedAt500 ==
  (Extracted /\ extraction.kind = "vendors")
    => /\ Len(records) <= 500
       /\ ( /\ ~NoSection(extraction)
            /\ extraction.items = 600
            /\ extraction.unnamed = {} )
            => /\ Len(records) = 500
               /\ \A i \in 1..500 : records[i] = [item |-> i, path |-> "discovery"]

\* 600 named vendor items were found in the section and 500 records returned
C25_Witness ==
  /\ Extracted
  /\ extraction.kind = "vendors"
  /\ extraction.section = "items"
  /\ extraction.items = 600
  /\ extraction.unnamed = {}
  /\ Len(records) = 500

\* the order of the click strategies
StrategyOrder ==
  <<"direct_selector", "aria_label", "button_text", "role_button_text",
    "generic_text", "fallback_pattern">>

\* the place of a strategy in that order
Rank(name) == CHOOSE k \in DOMAIN StrategyOrder : StrategyOrder[k] = name

\* an attempt with success = true is in the report
Succeeded == \E i \in DOMAIN attempts : attempts[i].success

\* C26: the click strategies are tried in the order direct_selector,
\* aria_label, button_text, role_button_text, generic_text,
\* fallback_pattern; once a strategy clicked and a modal was detected no
\* strategy is tried any more, so the report holds at most one attempt with
\* success = true, and it is the last one recorded.
C26_StrategiesInOrderUntilSuccess ==
  /\ [](/\ \A i \in DOMAIN attempts : attempts[i].success => i = Len(attempts)
        /\ \A i, j \in DOMAIN attempts :
             i < j => Rank(attempts[i].strategy) <= Rank(attempts[j].strategy)
        /\ Succeeded => nav_pc \in {"validate", "done"})
  /\ [][/\ \A new \in tried' \ tried : \A old \in tried : Rank(old) < Rank(new)
        /\ Succeeded => tried' = tried /\ attempts' = attempts]_vars

\* the third strategy opened the modal after two recorded failures
C26_Witness ==
  /\ NavReturned
  /\ Len(attempts) = 3
  /\ attempts[3].success
  /\ attempts[3].strategy = "button_text"
  /\ tried = {"direct_selector", "aria_label", "button_text"}

\* the strategy that _try_click_strategy is running
Running == StrategyName(nav_banner, strategy)

\* the click loop of the running strategy may make one more pass
MayRetry == Running # "fallback_pattern" /\ attempt < 2

\* the flow leaves the running strategy: the next one starts or the flow ends
MovesOn == (strategy' = strategy + 1 /\ attempt' = 0) \/ nav_pc' = "done"

\* C27: within a click strategy, a timeout is followed by another pass
\* until 3 passes have been made, and only then by the next strategy; an
\* exception that is not a timeout ends the strategy at once; a fallback
\* pattern is given one pass only.
C27_RetriesWithinStrategy ==
  /\ [](nav_pc \in {"click", "detect"}
          => /\ attempt < 3
             /\ Running = "fallback_pattern" => attempt = 0)
  /\ [][nav_pc = "click"
          => /\ outcome' = "timeout"
                  => IF MayRetry
                     THEN /\ strategy' = strategy
                          /\ attempt' = attempt + 1
                          /\ nav_pc' = "click"
                          /\ attempts' = attempts
                     ELSE MovesOn
             /\ outcome' = "error" => MovesOn]_vars

\* the third pass of direct_selector timed out, after which aria_label was
\* ended by another exception in its first pass
C27_Witness ==
  /\ Len(attempts) = 2
  /\ attempts[1].strategy = "direct_selector"
  /\ attempts[2].strategy = "aria_label"
  /\ outcome = "error"
  /\ clicked = FALSE
  /\ nav_pc = "click"
  /\ Running = "button_text"

\* C28: the machine becomes MODAL_READY only after the modal candidate was
\* found visible, then found to have 20 characters or more of trimmed
\* text, then found visible again after the animation wait; when one of
\* these calls fails or raises no later one is made, the flow ends in
\* FAILED and returns no modal.
C28_ReadyOnlyAfterChecks ==
  /\ \A k \in DOMAIN readiness :
       /\ readiness[k].call = ReadinessCalls[k]
       /\ k < Len(readiness) => readiness[k].result = "passed"
  /\ machine.current_state = "MODAL_READY"
       => /\ Len(readiness) = 4
          /\ \A k \in 1..4 : readiness[k].result = "passed"
          /\ readiness[2].trimmed >= 20
  /\ (readiness # <<>> /\ readiness[Len(readiness)].result # "passed")
       => /\ NavReturned
          /\ machine.final_state = "FAILED"
          /\ ~machine.modal
          /\ modal_locator = "none"

\* a modal with exactly 20 characters of trimmed text was found ready
C28_Witness ==
  /\ NavReturned
  /\ machine.final_state = "MODAL_READY"
  /\ Len(readiness) = 4
  /\ readiness[2].trimmed = 20

\* C29: for a banner in an iframe, whatever its CMP type, a click strategy
\* takes the button from the main page only when the iframe is no longer
\* on the page.
C29_ButtonResolvedInIframe ==
  (nav_banner # Unset /\ nav_banner.in_iframe /\ resolved = "main")
    => ~iframe_there

\* C30: no loop of the flow goes on for ever: a click strategy makes at
\* most 3 passes (1 for a fallback pattern), modal detection is retried at
\* most 2 times after a click, at most 5 named strategies and 8 fallback
\* patterns are run, and execute_navigation_flow returns.
C30_FlowTerminates ==
  /\ [](nav_pc \in {"click", "detect"}
          => /\ attempt < 3
             /\ Running = "fallback_pattern" => attempt = 0
             /\ detect_attempt <= 2
             /\ strategy <= 5 + 8
             /\ Running # "fallback_pattern" => strategy <= 5)
  /\ <>NavReturned

\* the flow returned after the last of its 13 strategies had been run
C30_Witness ==
  /\ NavReturned
  /\ strategy = 13
  /\ clicked
  /\ machine.final_state = "FAILED"

\* the methods of the sections at the places, as a set
MethodsAt(secs, places) == {secs[i].discovery_method : i \in places}

\* C32: when the candidates of a content type are two overlapping
\* sections, merge_discoveries returns one section of that type: the one
\* of the two with the higher confidence, or at equal confidence the one
\* whose method comes first in ARIA > visual > static, relabelled hybrid,
\* and with the methods of both candidates recorded in merged_from.
C32_BestOfClusterKept ==
  merge_pc = "returned"
    => \A type \in MergeTypes :
         \A i, j \in PlacesOfType(all_sections, type) :
           ( /\ PlacesOfType(all_sections, type) = {i, j}
             /\ i < j
             /\ SectionsOverlap(all_sections[i], all_sections[j]) )
             => \E k \in DOMAIN merged :
                  /\ PlacesOfType(merged, type) = {k}
                  /\ merged[k].discovery_method = "hybrid"
                  /\ merged[k].confidence
                       >= all_sections[i].confidence
                  /\ merged[k].confidence
                       >= all_sections[j].confidence
                  /\ Range(merged[k].merged_from)
                       = MethodsAt(all_sections, {i, j})

\* C37: after merge_discoveries no two sections of the output that have
\* the same content type overlap.
C37_NoOverlapInOutput ==
  merge_pc = "returned"
    => \A i, j \in DOMAIN merged :
         (i # j /\ merged[i].content_type = merged[j].content_type)
           => ~SectionsOverlap(merged[i], merged[j])

\* the string classify_button_role looks at: the text and the aria-label
\* as extract_banner_buttons passes them, with a blank between
Combined == Lower(Strip(inner_text)) \o <<" ">> \o Lower(aria_label)

\* an accept keyword is in the string and none of the two qualifiers is
AcceptMatches ==
  AnyIn(AcceptPatterns, Combined) /\ ~AnyIn(AcceptExclusions, Combined)

C39_OneRecordPerStrategy ==
  /\ [](Len(attempts) <= strategy /\ Len(attempts) <= 5 + 8)
  /\ [][/\ Len(attempts') <= Len(attempts) + 1
        /\ attempts' # attempts
             => \/ strategy' = strategy + 1
                \/ nav_pc' \in {"validate", "done"}]_vars

\* the flow returned a report of 13 failed attempts, the button having
\* been clicked without a modal being detected on the way
C39_Witness ==
  /\ NavReturned
  /\ Len(attempts) = 13
  /\ clicked
  /\ \A i \in DOMAIN attempts : ~attempts[i].success

\* C33: the button the navigation flow goes for is the first button of
\* role settings in banner_info.buttons; when no button has that role it
\* is the first button of role info, and when none has either there is no
\* button.
C33_FirstSettingsElseInfo ==
  pick_pc \in {"found", "returned None"}
    => LET k == settings_button
           first(r) == /\ k \in DOMAIN buttons
                       /\ buttons[k] = r
                       /\ \A j \in 1..(k - 1) : buttons[j] # r
           some(r) == \E i \in DOMAIN buttons : buttons[i] = r
       IN  /\ some("settings") => first("settings")
           /\ (~some("settings") /\ some("info")) => first("info")
           /\ (~some("settings") /\ ~some("info"))
                => k = 0 /\ pick_pc = "returned None"

\* an info button comes before two settings buttons, and the first of
\* these was picked
C33_Witness ==
  /\ pick_pc = "found"
  /\ buttons = <<"info", "settings", "settings">>
  /\ settings_button = 2

\* a CMP type without its "-cmp" suffix, whatever the case of the letters
WithoutSuffix(cmp) ==
  IF Len(cmp) >= Len(CmpSuffix)
     /\ Lower(SubSeq(cmp, Len(cmp) - Len(CmpSuffix) + 1, Len(cmp))) = CmpSuffix
  THEN Lower(SubSeq(cmp, 1, Len(cmp) - Len(CmpSuffix)))
  ELSE Lower(cmp)

\* C36: the waiter has the tuned timeouts of a CMP whenever cmp_type,
\* without its "-cmp" suffix and whatever the case of its letters, is the
\* name of a CMP of the table, and the defaults 3000, 1500 and 1000 ms for
\* every other cmp_type and for None.
C36_TimeoutsByNormalizedCmp ==
  waiter # Unset
    => IF cmp_type # <<>> /\ WithoutSuffix(cmp_type) \in KnownCmps
       THEN waiter.timeouts = TimeoutsOf(WithoutSuffix(cmp_type))
       ELSE waiter.timeouts =
              [modal_open |-> 3000, animation |-> 1500, lazy_load |-> 1000]

\* the class attribute holds the class
HasClass(classes, class) ==
  Contains(<<" ">> \o classes \o <<" ">>, <<" ">> \o class \o <<" ">>)

\* what is_section_active read of the control shows it active
SeenActive ==
  LET b == act_button
      read(k) == b.raises_at = 0 \/ k < b.raises_at
  IN  \/ read(1) /\ b.aria_selected = "true"
      \/ read(2) /\ b.aria_expanded = "true"
      \/ read(3) /\ \E class \in ActiveClasses : HasClass(b.classes, class)

\* the places of a call in act_calls
CallsOf(call) == {k \in DOMAIN act_calls : act_calls[k] = call}

Place(s) == CHOOSE k \in DOMAIN Strategies : Strategies[k] = s

\* the detection_method of the banners a strategy produces; the iframe
\* search runs the generic detection
MethodOf(s) ==
  CASE s = "hardcoded" -> "hardcoded_detector"
    [] s = "iframes" -> "generic"
    [] OTHER -> s

\* the attempted strategies that produced a banner
Producers == {j \in DOMAIN det_tried : det_yield[j]}

\* C31: the strategies are attempted in the order hardcoded, cmp_specific,
\* generic, text_based, iframes, shadow_dom, none being passed over but an
\* iframe or shadow-DOM search that the configuration does not enable; a
\* strategy is attempted only after every earlier one produced no banner;
\* and a banner that is returned carries the detection_method of the first
\* strategy that produced one.
C31_StrategiesInOrder ==
  /\ \A j \in DOMAIN det_tried :
       /\ \A i \in 1..(j - 1) :
            Place(det_tried[i]) < Place(det_tried[j]) /\ ~det_yield[i]
       /\ \A k \in 1..(Place(det_tried[j]) - 1) :
            \/ \E i \in 1..(j - 1) : det_tried[i] = Strategies[k]
            \/ Strategies[k] = "iframes" /\ ~det_config.support_nested_iframes
            \/ Strategies[k] = "shadow_dom" /\ ~det_config.support_shadow_dom
       /\ det_tried[j] = "iframes" => det_config.support_nested_iframes
       /\ det_tried[j] = "shadow_dom" => det_config.support_shadow_dom
  /\ det_pc \in {"returned", "audited"} =>
       /\ Producers # {} =>
            /\ det_banner # PyNone
            /\ det_banner.detected
            /\ det_banner.detection_method = MethodOf(det_tried[Least(Producers)])
       /\ (det_banner # PyNone /\ det_banner.detected) => Producers # {}

\* hardcoded, configuration, generic and text-based detection found
\* nothing, and the banner that the iframe search produced was returned
C31_Witness ==
  /\ det_pc = "returned"
  /\ det_tried = <<"hardcoded", "cmp_specific", "generic", "text_based", "iframes">>
  /\ det_yield = <<FALSE, FALSE, FALSE, FALSE, TRUE>>
  /\ det_banner.detection_method = "generic"
  /\ det_banner.in_iframe

\* detect_banner returned the banner of the hardcoded sourcepoint, didomi
\* or sfbx detector
FromBareDetector ==
  /\ det_pc \in {"returned", "audited"}
  /\ det_banner # PyNone
  /\ det_banner.detection_method = "hardcoded_detector"
  /\ det_banner.cmp_type \in {"sourcepoint", "didomi", "sfbx"}

\* C40: a banner of the hardcoded sourcepoint, didomi or sfbx detector has
\* no button and is not in an iframe; the audit that goes on from it, when
\* it runs the navigation flow, ends the flow in FAILED after the two
\* transitions into MODAL_OPENING and FAILED and before any click, gets no
\* detailed data, and is left with the status success_basic and without
\* categories and vendors.
C40_BareBannerStaysBasic ==
  FromBareDetector =>
    /\ det_banner.buttons = <<>>
    /\ ~det_banner.in_iframe
    /\ det_pc = "audited" =>
         LET k == det_audit.cont
         IN  /\ k.res.status = "success_basic"
             /\ k.res.categories = 0
             /\ k.res.vendors = 0
             /\ k.dd \in {PyNone, Unset}
             /\ k.pc = "cookies"
             /\ det_audit.max_ui_depth > 0 =>
                  /\ k.nav.current_state = "FAILED"
                  /\ k.nav.final_state = "FAILED"
                  /\ ~k.nav.modal
                  /\ k.nav.transitions = <<<<"BANNER_DETECTED", "MODAL_OPENING">>,
                                           <<"MODAL_OPENING", "FAILED">>>>
                  /\ k.dd = PyNone

\* the sfbx detector found its modal, and the audit ran the flow, which failed
C40_Witness ==
  /\ det_pc = "audited"
  /\ FromBareDetector
  /\ det_banner.cmp_type = "sfbx"
  /\ det_audit.max_ui_depth = 1
  /\ det_audit.cont.nav.current_state = "FAILED"
  /\ det_audit.cont.res.status = "success_basic"

====
